---- MODULE Spec2Model ----
(***************************************************************************)
(* Model of the minute-stepped backtesting engine simulador_mtf:           *)
(* SimulatorCore.run / _procesar_cierres / _abrir_operacion / _aplicar_dca *)
(* / finalizar (simulator_core.py), the closure cascade cerrar_operacion   *)
(* (closures.py), Operation / Investor (models.py), aplicar_dca (dca.py),  *)
(* fees.py, capital.py, validations.py and finalization.py.                *)
(*                                                                         *)
(* Money, prices and quantities are Python floats in the program.  The     *)
(* model keeps them as integers and draws its inputs from values for which *)
(* every division the program performs is exact, so the integer results    *)
(* are the real-number results.  Div below has no value when a division is *)
(* not exact: TLC then stops with an error instead of rounding silently.   *)
(* Comparisons against a percentage of a value are made on both sides      *)
(* multiplied by 100.                                                      *)
(***************************************************************************)
EXTENDS Integers, Sequences, FiniteSets, TLC

VARIABLES
    inv,                \* the Investor object
    operaciones,        \* SimulatorCore.operaciones: id -> Operation (ids are 1..Len)
    map_ticker_dir,     \* SimulatorCore.map_ticker_dir: side -> id (0: no entry)
    eventos,            \* EventLogger.eventos: the journal
    ts,                 \* the minute run() is processing
    pc,                 \* position of run()/finalizar()
    pendientes_cierre,  \* rest of the snapshot list(self.operaciones.values())
    pendientes_senales, \* rest of the signals of the minute
    vela,               \* the bar price_provider.get_price returns for (ticker, ts)
    senales,            \* signal store: rows <<minute, signal>> not yet fetched
    comisiones_pagadas, \* ghost: sum of the commissions debited at open and at DCA
    cascada,            \* ghost: input and result of the last cascade evaluation
    fallos,             \* ghost: number of persistence calls that raised
    persistence         \* ghost: the calls the PersistenceAdapter served

vars == <<inv, operaciones, map_ticker_dir, eventos, ts, pc, pendientes_cierre,
          pendientes_senales, vela, senales, comisiones_pagadas, cascada, fallos,
          persistence>>

----------------------------------------------------------------------------
(* Bounds of the model                                                     *)

\* run(ts_inicio, ts_fin) covers the minutes TsInicio .. TsInicio + MaxMinutos
MaxMinutos == 2
\* total number of signals in the signal store over the whole run
MaxSenales == 2

----------------------------------------------------------------------------
(* Program constants and the run's inputs                                  *)

\* Investor.max_operaciones_diarias default
MaxOperacionesDiarias == 50
\* Investor.max_operaciones_abiertas default
MaxOperacionesAbiertas == 20
\* minutes per day in dia = ts // 1440
MinutosDia == 1440

Nil == [nil |-> TRUE]

TIPOS == {"LONG", "SHORT"}

\* first minute of the run: the last minute of day 0, so that the day changes
TsInicio == MinutosDia - 1
TsFin == TsInicio + MaxMinutos

\* RiskConfig of the run
risk == [riesgo_max_pct |-> 2, tamano_min |-> 60000, tamano_max |-> 120000]

\* StrategyParams as load_from_rows builds them: max_parciales 1, flags True
strategy == [avance_minimo_pct             |-> 50,
             porc_limite_retro             |-> 50,
             porc_retroceso_liquidacion_sl |-> 50,
             porc_liquidacion_parcial_sl   |-> 50,
             porc_limite_retro_entrada     |-> 50,
             max_parciales                 |-> 1,
             habilitar_proteccion_ganancias |-> TRUE,
             habilitar_parcial             |-> TRUE,
             habilitar_retroceso_sin_avance |-> TRUE]

\* StrategyParams(..., max_parciales=0, habilitar_*=False): partial
\* liquidation and both retracement rules switched off
estrategia_sin_banderas ==
    [strategy EXCEPT !.max_parciales = 0,
                     !.habilitar_proteccion_ganancias = FALSE,
                     !.habilitar_parcial = FALSE,
                     !.habilitar_retroceso_sin_avance = FALSE]

\* a strategy row whose porc_liquidacion_parcial_sl is 100
estrategia_liquidacion_total ==
    [strategy EXCEPT !.porc_liquidacion_parcial_sl = 100]

\* StrategyCache: _cache[id_estrategia] = StrategyParams
strategy_cache == <<strategy, estrategia_sin_banderas, estrategia_liquidacion_total>>

\* the Investor handed to SimulatorCore: the defaults of the dataclass, with the
\* capital, leverage, drawdown cap, exit slippage and commission of the run
InvestorInicial ==
    [capital_inicial |-> 200000, capital_actual |-> 200000,
     operaciones_hoy |-> 0,
     max_operaciones_diarias |-> MaxOperacionesDiarias,
     max_operaciones_abiertas |-> MaxOperacionesAbiertas,
     dia_actual |-> -1,                 \* None
     slippage_open_pct |-> 0, slippage_close_pct |-> 10, commission_pct |-> 1,
     drawdown_max_pct |-> 4, drawdown_activo |-> FALSE,
     pnl_realizado_acumulado |-> 0, halted |-> FALSE,
     usar_parametros_senal |-> FALSE,
     apalancamiento_inversionista |-> 1, apalancamiento_max |-> 0,
     desincronizado |-> FALSE]

\* the 1-minute bars the price store may hold for a minute (all close at 100)
VelaQuieta       == [high |-> 100, low |-> 100, close |-> 100]
VelaTpSl         == [high |-> 120, low |-> 80,  close |-> 100]
VelaParcialLong  == [high |-> 105, low |-> 80,  close |-> 100]
VelaRetroceso    == [high |-> 110, low |-> 100, close |-> 100]
VelaSlLong       == [high |-> 100, low |-> 80,  close |-> 100]
VELAS == {VelaQuieta, VelaTpSl, VelaParcialLong, VelaRetroceso, VelaSlLong}

\* the signals the signal store may hold (SignalRecord)
SenalLong     == [id_senal |-> 1, tipo_senal |-> "LONG",
                  target_profit_price |-> 120, stop_loss_price |-> 80,
                  id_estrategia_fk |-> 1,
                  apalancamiento_calculado |-> 1,
                  mult_sl_asignado |-> 1, mult_tp_asignado |-> 1]
SenalShort    == [id_senal |-> 2, tipo_senal |-> "SHORT",
                  target_profit_price |-> 80, stop_loss_price |-> 120,
                  id_estrategia_fk |-> 1,
                  apalancamiento_calculado |-> 1,
                  mult_sl_asignado |-> 1, mult_tp_asignado |-> 1]
SenalInvalida == [id_senal |-> 3, tipo_senal |-> "LONG",
                  target_profit_price |-> 120, stop_loss_price |-> 80,
                  id_estrategia_fk |-> 1,
                  apalancamiento_calculado |-> 1,
                  mult_sl_asignado |-> 0, mult_tp_asignado |-> 1]
SENALES == {SenalLong, SenalShort, SenalInvalida}

\* signals of the other strategies of the cache
SenalLongSinBanderas == [SenalLong EXCEPT !.id_senal = 4, !.id_estrategia_fk = 2]
SenalLongLiquidacionTotal == [SenalLong EXCEPT !.id_senal = 5, !.id_estrategia_fk = 3]
SENALES_CONFIG == {SenalLong, SenalShort, SenalLongSinBanderas, SenalLongLiquidacionTotal}

\* investors of other configurations: no daily cap (0), leverage 12
InvestorSinTope == [InvestorInicial EXCEPT !.max_operaciones_diarias = 0]
InvestorApalancado == [InvestorInicial EXCEPT !.apalancamiento_inversionista = 12]

\* a signal whose apalancamiento_calculado is 0
SenalSinApalancamiento ==
    [SenalLong EXCEPT !.id_senal = 6, !.apalancamiento_calculado = 0]

\* investors whose entries meet the gates of _abrir_operacion and of aplicar_dca:
\* caps of one operation per day and one open operation
InvestorTopes ==
    [InvestorInicial EXCEPT !.max_operaciones_diarias = 1,
                            !.max_operaciones_abiertas = 1]
\* the leverage of the signal, and a capital below tamano_min
InvestorParametrosSenal ==
    [InvestorInicial EXCEPT !.usar_parametros_senal = TRUE,
                            !.capital_inicial = 50000, !.capital_actual = 50000]
\* a capital that, after one opening, covers tamano_min but not the commission
\* on top of it
InvestorCapitalJusto ==
    [InvestorInicial EXCEPT !.capital_inicial = 120900, !.capital_actual = 120900]
\* a capital whose riesgo_max_pct share exceeds tamano_max
InvestorCapitalAlto ==
    [InvestorInicial EXCEPT !.capital_inicial = 7000000, !.capital_actual = 7000000]
\* an entry slippage of 50%, applied by aplicar_dca
InvestorDeslizamiento == [InvestorInicial EXCEPT !.slippage_open_pct = 50]

----------------------------------------------------------------------------
(* Arithmetic                                                              *)

\* a / b of the program's real arithmetic; defined only when exact
Div(a, b) == CHOOSE q \in {a \div b} : q * b = a

----------------------------------------------------------------------------
(* fees.py                                                                 *)

\* variant of aplicar_slippage whose exit prices move the other way (told apart
\* by C30_SignoSlippage)
aplicar_slippage_salida_invertida(precio, tipo_operacion, slippage_pct, side) ==
    IF slippage_pct <= 0 THEN precio
    ELSE IF side = "entry"
         THEN IF tipo_operacion = "LONG"
              THEN Div(precio * (100 + slippage_pct), 100)
              ELSE Div(precio * (100 - slippage_pct), 100)
         ELSE IF tipo_operacion = "LONG"
              THEN Div(precio * (100 + slippage_pct), 100)
              ELSE Div(precio * (100 - slippage_pct), 100)

aplicar_slippage(precio, tipo_operacion, slippage_pct, side) ==
    IF slippage_pct <= 0 THEN precio
    ELSE IF side = "entry"
         THEN IF tipo_operacion = "LONG"
              THEN Div(precio * (100 + slippage_pct), 100)
              ELSE Div(precio * (100 - slippage_pct), 100)
         ELSE IF tipo_operacion = "LONG"
              THEN Div(precio * (100 - slippage_pct), 100)
              ELSE Div(precio * (100 + slippage_pct), 100)

calcular_comision(precio, cantidad, commission_pct) ==
    IF commission_pct <= 0 THEN 0
    ELSE Div(precio * cantidad * commission_pct, 100)

----------------------------------------------------------------------------
(* capital.py                                                              *)

calcular_monto_operacion(i, r) ==
    LET m100 == i.capital_actual * r.riesgo_max_pct     \* monto * 100
        m1 == IF m100 < r.tamano_min * 100 THEN r.tamano_min
              ELSE IF m100 > r.tamano_max * 100 THEN r.tamano_max
              ELSE Div(m100, 100)
        m2 == IF m1 > r.tamano_max THEN r.tamano_max ELSE m1
    IN  IF m2 > i.capital_actual THEN i.capital_actual ELSE m2

debitar_capital(i, monto) ==
    LET c == i.capital_actual - monto
    IN  [i EXCEPT !.capital_actual = IF c < 0 THEN 0 ELSE c]

acreditar_capital(i, monto) ==
    [i EXCEPT !.capital_actual = i.capital_actual + monto]

----------------------------------------------------------------------------
(* validations.py                                                          *)

validar_limites_inversionista(i) ==
    ~(i.max_operaciones_diarias # 0
      /\ i.operaciones_hoy >= i.max_operaciones_diarias)

\* variant of the gate of open operations that never rejects (told apart by
\* C39_TopeAbiertas)
validar_max_abiertas_sin_tope(i, abiertas_actuales) == TRUE

validar_max_abiertas(i, abiertas_actuales) ==
    ~(i.max_operaciones_abiertas # 0
      /\ abiertas_actuales >= i.max_operaciones_abiertas)

validar_riesgo_monto(r, monto) ==
    IF monto < r.tamano_min THEN FALSE
    ELSE IF monto > r.tamano_max THEN FALSE
    ELSE TRUE

validar_capital_disponible(i, requerido) == i.capital_actual >= requerido

\* variant of the DCA gate that never rejects (told apart by C38_TamanoOperacion)
validar_dca_limite_operacion_sin_tope(op, r, monto) == TRUE

validar_dca_limite_operacion(op, r, monto) ==
    (op.capital_invertido + monto) <= r.tamano_max

----------------------------------------------------------------------------
(* models.py: Investor                                                     *)

reset_diario_si_cambia_dia(i, dia) ==
    IF i.dia_actual = -1 \/ i.dia_actual # dia
    THEN [i EXCEPT !.dia_actual = dia, !.operaciones_hoy = 0]
    ELSE i

registrar_pnl_realizado(i, pnl_net) ==
    [i EXCEPT !.pnl_realizado_acumulado = i.pnl_realizado_acumulado + pnl_net]

\* limite_perdida = capital_inicial * (drawdown_max_pct / 100), compared * 100
verificar_drawdown(i) ==
    IF i.drawdown_max_pct <= 0 THEN i
    ELSE IF (0 - i.pnl_realizado_acumulado) * 100
               >= i.capital_inicial * i.drawdown_max_pct
         THEN [i EXCEPT !.drawdown_activo = TRUE]
         ELSE i

----------------------------------------------------------------------------
(* models.py: Operation                                                    *)

\* Operation(...) as _abrir_operacion builds it, after init_extremos()
NuevaOperacion(s, precio_exec, cantidad, monto, apalancamiento, comision, t) ==
    [id_operacion |-> 0,                       \* None until inserted
     tipo |-> s.tipo_senal,
     precio_entrada |-> precio_exec,
     take_profit |-> s.target_profit_price,
     stop_loss |-> s.stop_loss_price,
     cantidad |-> cantidad,
     strategy |-> strategy_cache[s.id_estrategia_fk],
     capital_invertido |-> monto,
     apalancamiento |-> apalancamiento,
     capital_bloqueado |-> monto,
     abierta |-> TRUE,
     estado |-> "abierta",
     precio_max |-> precio_exec,
     precio_min |-> precio_exec,
     parciales_realizados |-> 0,
     pnl_realizado |-> 0,
     es_hija |-> FALSE,
     id_operacion_padre |-> 0,                 \* None
     comisiones_acumuladas |-> comision,
     permite_parcial |-> TRUE,
     liq_parcial_previa |-> FALSE,             \* attribute absent until set
     timestamp_apertura |-> t,
     timestamp_cierre |-> -1]                  \* None

\* variant of actualizar_extremos that keeps the extremes of the last bar only
\* (told apart by C21_ExtremosMonotonos)
actualizar_extremos_ultima_vela(op, high, low) ==
    [op EXCEPT !.precio_max = high, !.precio_min = low]

\* Operation.actualizar_extremos
actualizar_extremos(op, high, low) ==
    [op EXCEPT !.precio_max = IF high > op.precio_max THEN high ELSE op.precio_max,
               !.precio_min = IF low < op.precio_min THEN low ELSE op.precio_min]

pnl_gross(op, precio_salida, cantidad) ==
    IF op.tipo = "LONG"
    THEN (precio_salida - op.precio_entrada) * cantidad
    ELSE (op.precio_entrada - precio_salida) * cantidad

\* returns the operation after the call and the value returned
cerrar_total(op, precio_exec, comision_salida, t) ==
    IF ~op.abierta THEN [op |-> op, pnl_net |-> 0]
    ELSE LET pnl_net == pnl_gross(op, precio_exec, op.cantidad) - comision_salida
         IN  [op |-> [op EXCEPT !.pnl_realizado = op.pnl_realizado + pnl_net,
                                !.comisiones_acumuladas =
                                    op.comisiones_acumuladas + comision_salida,
                                !.cantidad = 0,
                                !.abierta = FALSE,
                                !.estado = "cerrada_total",
                                !.timestamp_cierre = t],
              pnl_net |-> pnl_net]

\* cerrar_parcial_creando_hija whose child keeps the whole capital_invertido
cerrar_parcial_creando_hija_sin_reparto(op, precio_exec, comision_salida_parcial, t) ==
    LET qty_before == op.cantidad
        qty_liq == Div(qty_before * op.strategy.porc_liquidacion_parcial_sl, 100)
    IN  IF qty_liq <= 0
        THEN [creado |-> FALSE, op |-> op, qty_liq |-> 0, pnl_parcial_net |-> 0,
              capital_liq |-> 0, hija |-> Nil]
        ELSE LET pnl_parcial_net ==
                     pnl_gross(op, precio_exec, qty_liq) - comision_salida_parcial
                 capital_liq == Div(op.capital_invertido * qty_liq, qty_before)
                 capital_rem == op.capital_invertido
                 padre == [op EXCEPT
                             !.comisiones_acumuladas =
                                 op.comisiones_acumuladas + comision_salida_parcial,
                             !.pnl_realizado = op.pnl_realizado + pnl_parcial_net,
                             !.cantidad = 0,
                             !.abierta = FALSE,
                             !.estado = "cerrada_parcial",
                             !.parciales_realizados = op.parciales_realizados + 1,
                             !.timestamp_cierre = t]
                 hija == [id_operacion |-> 0,
                          tipo |-> op.tipo,
                          precio_entrada |-> op.precio_entrada,
                          take_profit |-> op.take_profit,
                          stop_loss |-> op.stop_loss,
                          cantidad |-> qty_before - qty_liq,
                          strategy |-> op.strategy,
                          capital_invertido |-> capital_rem,
                          apalancamiento |-> op.apalancamiento,
                          capital_bloqueado |-> capital_rem,
                          abierta |-> TRUE,
                          estado |-> "abierta",
                          precio_max |-> op.precio_max,
                          precio_min |-> op.precio_min,
                          parciales_realizados |-> 0,
                          pnl_realizado |-> 0,
                          es_hija |-> TRUE,
                          id_operacion_padre |-> op.id_operacion,
                          comisiones_acumuladas |-> 0,
                          permite_parcial |-> FALSE,
                          liq_parcial_previa |-> FALSE,
                          timestamp_apertura |-> t,
                          timestamp_cierre |-> -1]
             IN  [creado |-> TRUE, op |-> padre, qty_liq |-> qty_liq,
                  pnl_parcial_net |-> pnl_parcial_net,
                  capital_liq |-> capital_liq, hija |-> hija]

\* returns creado = FALSE for None, else the parent after the call and the dict
cerrar_parcial_creando_hija(op, precio_exec, comision_salida_parcial, t) ==
    LET qty_before == op.cantidad
        qty_liq == Div(qty_before * op.strategy.porc_liquidacion_parcial_sl, 100)
    IN  IF qty_liq <= 0
        THEN [creado |-> FALSE, op |-> op, qty_liq |-> 0, pnl_parcial_net |-> 0,
              capital_liq |-> 0, hija |-> Nil]
        ELSE LET pnl_parcial_net ==
                     pnl_gross(op, precio_exec, qty_liq) - comision_salida_parcial
                 capital_liq == Div(op.capital_invertido * qty_liq, qty_before)
                 capital_rem == op.capital_invertido - capital_liq
                 padre == [op EXCEPT
                             !.comisiones_acumuladas =
                                 op.comisiones_acumuladas + comision_salida_parcial,
                             !.pnl_realizado = op.pnl_realizado + pnl_parcial_net,
                             !.cantidad = 0,
                             !.abierta = FALSE,
                             !.estado = "cerrada_parcial",
                             !.parciales_realizados = op.parciales_realizados + 1,
                             !.timestamp_cierre = t]
                 hija == [id_operacion |-> 0,
                          tipo |-> op.tipo,
                          precio_entrada |-> op.precio_entrada,
                          take_profit |-> op.take_profit,
                          stop_loss |-> op.stop_loss,
                          cantidad |-> qty_before - qty_liq,
                          strategy |-> op.strategy,
                          capital_invertido |-> capital_rem,
                          apalancamiento |-> op.apalancamiento,
                          capital_bloqueado |-> capital_rem,
                          abierta |-> TRUE,
                          estado |-> "abierta",
                          precio_max |-> op.precio_max,
                          precio_min |-> op.precio_min,
                          parciales_realizados |-> 0,
                          pnl_realizado |-> 0,
                          es_hija |-> TRUE,
                          id_operacion_padre |-> op.id_operacion,
                          comisiones_acumuladas |-> 0,
                          permite_parcial |-> FALSE,
                          liq_parcial_previa |-> FALSE,
                          timestamp_apertura |-> t,
                          timestamp_cierre |-> -1]
             IN  [creado |-> TRUE, op |-> padre, qty_liq |-> qty_liq,
                  pnl_parcial_net |-> pnl_parcial_net,
                  capital_liq |-> capital_liq, hija |-> hija]

pnl_no_realizado(op, precio_actual) ==
    IF ~op.abierta \/ op.cantidad <= 0 THEN 0
    ELSE pnl_gross(op, precio_actual, op.cantidad)

----------------------------------------------------------------------------
(* closures.py: the closure cascade                                        *)

\* one entry of the list cerrar_operacion returns
EventoCierre(tipo_evento, motivo, precio_exec, comision, pnl_net, cantidad, hija) ==
    [tipo_evento |-> tipo_evento, motivo |-> motivo, precio_exec |-> precio_exec,
     comision |-> comision, pnl_net |-> pnl_net, cantidad |-> cantidad,
     hija |-> hija]

\* b1 condition
dispara_tp(op, high, low) ==
    (op.tipo = "LONG" /\ high >= op.take_profit)
    \/ (op.tipo = "SHORT" /\ low <= op.take_profit)

\* b3 condition
dispara_sl(op, high, low) ==
    (op.tipo = "LONG" /\ low <= op.stop_loss)
    \/ (op.tipo = "SHORT" /\ high >= op.stop_loss)

\* a b2 gate that only asks whether the operation was liquidated before
admite_parcial_solo_previa(op) == ~op.liq_parcial_previa

\* b2 gate: parent only, permite_parcial, no previous partial
admite_parcial(op) ==
    /\ ~(op.id_operacion_padre # 0)
    /\ op.permite_parcial
    /\ ~op.liq_parcial_previa

\* b2 condition (retroceso_parcial); avance_minimo = (tp - entrada) * pct / 100
\* and limite_parcial are compared multiplied by 100
retroceso_parcial(op, high, low) ==
    LET entrada == op.precio_entrada
        avance_minimo100 == (op.take_profit - entrada) * op.strategy.avance_minimo_pct
        porc == op.strategy.porc_retroceso_liquidacion_sl
    IN  IF op.tipo = "LONG"
        THEN /\ op.precio_max > entrada
             /\ op.precio_max * 100 < entrada * 100 + avance_minimo100
             /\ low < entrada
             /\ low * 100 <= entrada * 100 - (entrada - op.stop_loss) * porc
        ELSE /\ op.precio_min < entrada
             /\ op.precio_min * 100 > entrada * 100 - avance_minimo100
             /\ high > entrada
             /\ high * 100 >= entrada * 100 + (op.stop_loss - entrada) * porc

\* b4 condition; limite_liq_retroceso_entrada() = porc_limite_retro_entrada / 100
retroceso_entrada(op, high, low) ==
    IF op.tipo = "LONG"
    THEN /\ low < op.precio_entrada
         /\ op.precio_max <= op.precio_entrada
         /\ low > op.stop_loss
         /\ low * 100 <= op.strategy.porc_limite_retro_entrada
    ELSE /\ high > op.precio_entrada
         /\ op.precio_min >= op.precio_entrada
         /\ high < op.stop_loss
         /\ high * 100 >= op.strategy.porc_limite_retro_entrada

\* b5 condition; limite_retroceso_max() = porc_limite_retro / 100
retroceso_maximo(op, high, low) ==
    LET entrada == op.precio_entrada
    IN  IF op.tipo = "LONG"
        THEN /\ high > entrada
             /\ op.precio_max * 100 >=
                    entrada * 100 + (op.take_profit - entrada) * op.strategy.avance_minimo_pct
             /\ low < op.precio_max
             /\ low * 100 <= op.precio_max * 100
                               - (op.precio_max - entrada) * op.strategy.porc_limite_retro
        ELSE /\ low < entrada
             /\ op.precio_min * 100 <=
                    entrada * 100 - (entrada - op.take_profit) * op.strategy.avance_minimo_pct
             /\ high > op.precio_min
             /\ high * 100 >= op.strategy.porc_limite_retro

\* body of a total-close block (b1, b3, b4, b5): exit at precio_base with exit
\* slippage; con_drawdown tells whether the block calls inv.verificar_drawdown()
bloque_cierre_total(op, i, t, evs, precio_base, motivo, con_drawdown) ==
    LET precio_exec == aplicar_slippage(precio_base, op.tipo, i.slippage_close_pct, "exit")
        comision == calcular_comision(precio_exec, op.cantidad, i.commission_pct)
        c == cerrar_total(op, precio_exec, comision, t)
        i1 == acreditar_capital(i, c.op.capital_invertido + c.pnl_net)
        i2 == registrar_pnl_realizado(i1, c.pnl_net)
        i3 == IF con_drawdown THEN verificar_drawdown(i2) ELSE i2
    IN  [op |-> c.op, inv |-> i3,
         eventos |-> Append(evs, EventoCierre("cierre_total", motivo, precio_exec,
                                              comision, c.pnl_net, 0, Nil))]

\* body of b2 once retroceso_parcial holds: exit at low (LONG) / high (SHORT);
\* retorna = FALSE when cerrar_parcial_creando_hija returned None (falls through)
bloque_cierre_parcial(op, i, t, evs, high, low) ==
    LET base == IF op.tipo = "LONG" THEN low ELSE high
        precio_exec == aplicar_slippage(base, op.tipo, i.slippage_close_pct, "exit")
        comision == calcular_comision(
                        precio_exec,
                        Div(op.cantidad * op.strategy.porc_liquidacion_parcial_sl, 100),
                        i.commission_pct)
        cerrado == cerrar_parcial_creando_hija(op, precio_exec, comision, t)
    IN  IF ~cerrado.creado
        THEN [retorna |-> FALSE, op |-> op, inv |-> i, eventos |-> evs]
        ELSE LET pnl_net == cerrado.pnl_parcial_net
                 cantidad_parcial == cerrado.qty_liq
                 hija == cerrado.hija
                 acreditado ==
                     Div(cerrado.op.capital_invertido * cantidad_parcial,
                         cerrado.op.capital_invertido + hija.capital_invertido)
                     + pnl_net
                 i1 == acreditar_capital(i, acreditado)
                 i2 == registrar_pnl_realizado(i1, pnl_net)
             IN  [retorna |-> TRUE,
                  op |-> [cerrado.op EXCEPT !.liq_parcial_previa = TRUE],
                  inv |-> i2,
                  eventos |-> Append(evs, EventoCierre("cierre_parcial", "Parcial SL",
                                                       precio_exec, comision, pnl_net,
                                                       cantidad_parcial, hija))]

\* variant of cerrar_operacion with the stop-loss block ahead of the take-profit
\* block (told apart by C3_TpSobreSl)
cerrar_operacion_sl_primero(op, precios, i, t, evs) ==
    LET high == precios.high
        low == precios.low
        parcial == bloque_cierre_parcial(op, i, t, evs, high, low)
    IN  IF dispara_sl(op, high, low)
        THEN bloque_cierre_total(op, i, t, evs, op.stop_loss, "Stop Loss", TRUE)
        ELSE IF dispara_tp(op, high, low)
        THEN bloque_cierre_total(op, i, t, evs, op.take_profit, "Take Profit", TRUE)
        ELSE IF admite_parcial(op) /\ retroceso_parcial(op, high, low) /\ parcial.retorna
        THEN [op |-> parcial.op, inv |-> parcial.inv, eventos |-> parcial.eventos]
        ELSE IF retroceso_entrada(op, high, low)
        THEN bloque_cierre_total(op, i, t, evs,
                                 IF op.tipo = "LONG" THEN low ELSE high,
                                 "Retroceso desde entrada", FALSE)
        ELSE IF retroceso_maximo(op, high, low)
        THEN bloque_cierre_total(op, i, t, evs,
                                 IF op.tipo = "LONG" THEN low ELSE high,
                                 "Retroceso desde maximo", FALSE)
        ELSE [op |-> op, inv |-> i, eventos |-> evs]

\* variant of cerrar_operacion with the stop-loss block ahead of the partial
\* block (told apart by C5_ParcialAntesDeSl)
cerrar_operacion_sl_antes_parcial(op, precios, i, t, evs) ==
    LET high == precios.high
        low == precios.low
        parcial == bloque_cierre_parcial(op, i, t, evs, high, low)
    IN  IF dispara_tp(op, high, low)
        THEN bloque_cierre_total(op, i, t, evs, op.take_profit, "Take Profit", TRUE)
        ELSE IF dispara_sl(op, high, low)
        THEN bloque_cierre_total(op, i, t, evs, op.stop_loss, "Stop Loss", TRUE)
        ELSE IF admite_parcial(op) /\ retroceso_parcial(op, high, low) /\ parcial.retorna
        THEN [op |-> parcial.op, inv |-> parcial.inv, eventos |-> parcial.eventos]
        ELSE IF retroceso_entrada(op, high, low)
        THEN bloque_cierre_total(op, i, t, evs,
                                 IF op.tipo = "LONG" THEN low ELSE high,
                                 "Retroceso desde entrada", FALSE)
        ELSE IF retroceso_maximo(op, high, low)
        THEN bloque_cierre_total(op, i, t, evs,
                                 IF op.tipo = "LONG" THEN low ELSE high,
                                 "Retroceso desde maximo", FALSE)
        ELSE [op |-> op, inv |-> i, eventos |-> evs]

\* cerrar_operacion(op, precios, inv, ts, eventos, logger=None): the operation and
\* the investor after the call, and the list returned
cerrar_operacion(op, precios, i, t, evs) ==
    LET high == precios.high
        low == precios.low
        parcial == bloque_cierre_parcial(op, i, t, evs, high, low)
    IN  IF dispara_tp(op, high, low)
        THEN bloque_cierre_total(op, i, t, evs, op.take_profit, "Take Profit", TRUE)
        ELSE IF admite_parcial(op) /\ retroceso_parcial(op, high, low) /\ parcial.retorna
        THEN [op |-> parcial.op, inv |-> parcial.inv, eventos |-> parcial.eventos]
        ELSE IF dispara_sl(op, high, low)
        THEN bloque_cierre_total(op, i, t, evs, op.stop_loss, "Stop Loss", TRUE)
        ELSE IF retroceso_entrada(op, high, low)
        THEN bloque_cierre_total(op, i, t, evs,
                                 IF op.tipo = "LONG" THEN low ELSE high,
                                 "Retroceso desde entrada", FALSE)
        ELSE IF retroceso_maximo(op, high, low)
        THEN bloque_cierre_total(op, i, t, evs,
                                 IF op.tipo = "LONG" THEN low ELSE high,
                                 "Retroceso desde maximo", FALSE)
        ELSE [op |-> op, inv |-> i, eventos |-> evs]

\* evaluar_cierres_reglas(op, high, low, close, inv, ts), the entry point that
\* _procesar_cierres imports from closures: the cascade on a fresh event list
evaluar_cierres_reglas(op, high, low, close, i, t) ==
    cerrar_operacion(op, [high |-> high, low |-> low, close |-> close], i, t, <<>>)

----------------------------------------------------------------------------
(* dca.py                                                                  *)

\* variant of aplicar_dca that updates the operation before it tests the capital
\* against amount + commission (told apart by C25_RechazoDcaSinEfecto)
aplicar_dca_exposicion_antes(op, precio_base, monto, i, r) ==
    LET precio_exec == aplicar_slippage(precio_base, op.tipo, i.slippage_open_pct, "entry")
        qty_extra == Div(monto * op.apalancamiento, precio_exec)
        comision == calcular_comision(precio_exec, qty_extra, i.commission_pct)
        total_debitar == monto + comision
        nuevo_prom == Div(op.precio_entrada * op.cantidad + precio_exec * qty_extra,
                          op.cantidad + qty_extra)
        op1 == [op EXCEPT !.precio_entrada = nuevo_prom,
                          !.cantidad = op.cantidad + qty_extra,
                          !.capital_invertido = op.capital_invertido + monto,
                          !.capital_bloqueado = op.capital_bloqueado + monto]
        rechazado(m) == [rechazo |-> m, op |-> op, inv |-> i, comision |-> 0]
    IN  IF ~validar_dca_limite_operacion(op, r, monto)
        THEN rechazado("limite_tamano_operacion")
        ELSE IF i.capital_actual < monto THEN rechazado("sin_capital")
        ELSE IF i.capital_actual < total_debitar
        THEN [rechazo |-> "sin_capital_comision", op |-> op1, inv |-> i, comision |-> 0]
        ELSE [rechazo |-> "",
              op |-> [op1 EXCEPT !.comisiones_acumuladas =
                                     op.comisiones_acumuladas + comision],
              inv |-> debitar_capital(i, total_debitar),
              comision |-> comision]

\* variant of aplicar_dca whose new entry price is the plain mean of the old
\* entry price and the execution price (told apart by C26_EfectoDca)
aplicar_dca_promedio_simple(op, precio_base, monto, i, r) ==
    LET precio_exec == aplicar_slippage(precio_base, op.tipo, i.slippage_open_pct, "entry")
        qty_extra == Div(monto * op.apalancamiento, precio_exec)
        comision == calcular_comision(precio_exec, qty_extra, i.commission_pct)
        total_debitar == monto + comision
        nuevo_prom == Div(op.precio_entrada + precio_exec, 2)
        rechazado(m) == [rechazo |-> m, op |-> op, inv |-> i, comision |-> 0]
    IN  IF ~validar_dca_limite_operacion(op, r, monto)
        THEN rechazado("limite_tamano_operacion")
        ELSE IF i.capital_actual < monto THEN rechazado("sin_capital")
        ELSE IF i.capital_actual < total_debitar THEN rechazado("sin_capital_comision")
        ELSE [rechazo |-> "",
              op |-> [op EXCEPT !.precio_entrada = nuevo_prom,
                                !.cantidad = op.cantidad + qty_extra,
                                !.capital_invertido = op.capital_invertido + monto,
                                !.capital_bloqueado = op.capital_bloqueado + monto,
                                !.comisiones_acumuladas =
                                    op.comisiones_acumuladas + comision],
              inv |-> debitar_capital(i, total_debitar),
              comision |-> comision]

\* rechazo = "" on success; op and inv are the objects after the call
aplicar_dca(op, precio_base, monto, i, r) ==
    LET precio_exec == aplicar_slippage(precio_base, op.tipo, i.slippage_open_pct, "entry")
        qty_extra == Div(monto * op.apalancamiento, precio_exec)
        comision == calcular_comision(precio_exec, qty_extra, i.commission_pct)
        total_debitar == monto + comision
        nuevo_prom == Div(op.precio_entrada * op.cantidad + precio_exec * qty_extra,
                          op.cantidad + qty_extra)
        rechazado(m) == [rechazo |-> m, op |-> op, inv |-> i, comision |-> 0]
    IN  IF ~validar_dca_limite_operacion(op, r, monto)
        THEN rechazado("limite_tamano_operacion")
        ELSE IF i.capital_actual < monto THEN rechazado("sin_capital")
        ELSE IF i.capital_actual < total_debitar THEN rechazado("sin_capital_comision")
        ELSE [rechazo |-> "",
              op |-> [op EXCEPT !.precio_entrada = nuevo_prom,
                                !.cantidad = op.cantidad + qty_extra,
                                !.capital_invertido = op.capital_invertido + monto,
                                !.capital_bloqueado = op.capital_bloqueado + monto,
                                !.comisiones_acumuladas =
                                    op.comisiones_acumuladas + comision],
              inv |-> debitar_capital(i, total_debitar),
              comision |-> comision]

----------------------------------------------------------------------------
(* logger.py and the helpers of SimulatorCore                              *)

\* one journal entry (the fields of the event the claims read)
Evento(tipo, t, motivo, id_op, capital_antes, capital_despues) ==
    [tipo |-> tipo, ts |-> t, motivo |-> motivo, id_op |-> id_op,
     capital_antes |-> capital_antes, capital_despues |-> capital_despues]

\* the callback build_persist_callback returns: one insert_log_evento call,
\* which raises when callback_falla
persist_callback(p) ==
    [p EXCEPT !.insert_log_evento = @ + 1,
              !.excepciones_callback = IF p.callback_falla THEN @ + 1 ELSE @]

\* variant of EventLogger.log that persists first and keeps the entry only when
\* the callback returned (told apart by C27_ContratoLogger)
log_persistir_antes(st, ev) ==
    [st EXCEPT !.eventos = IF st.persistence.callback_falla THEN @ ELSE Append(@, ev),
               !.persistence = persist_callback(@)]

\* EventLogger.log on the simulator state st: the append, then the callback
\* inside "try ... except Exception: pass"
log(st, ev) ==
    [st EXCEPT !.eventos = Append(@, ev), !.persistence = persist_callback(@)]

\* the persistence call metodo returned without raising
servida(st, metodo) == [st EXCEPT !.persistence[metodo] = @ + 1]

\* variant of _marcar_error_persistencia that halts without marking the investor
\* desincronizado (told apart by C6_FalloPersistenciaDetiene)
marcar_error_persistencia_sin_desincronizar(st, contexto, t) ==
    LET i == [st.inv EXCEPT !.halted = TRUE]
    IN  log([st EXCEPT !.inv = i, !.fallos = st.fallos + 1],
            Evento("error_persistencia", t, contexto, 0,
                   i.capital_actual, i.capital_actual))

\* a persistence call raised: _marcar_error_persistencia(exc, contexto)
marcar_error_persistencia(st, contexto, t) ==
    LET i == [st.inv EXCEPT !.desincronizado = TRUE, !.halted = TRUE]
    IN  log([st EXCEPT !.inv = i, !.fallos = st.fallos + 1],
            Evento("error_persistencia", t, contexto, 0,
                   i.capital_actual, i.capital_actual))

seleccionar_apalancamiento(i, s) ==
    IF i.usar_parametros_senal
    THEN IF s.apalancamiento_calculado < 1 THEN 0 ELSE s.apalancamiento_calculado
    ELSE LET b1 == IF i.apalancamiento_inversionista < 1 /\ i.apalancamiento_max # 0
                   THEN i.apalancamiento_max
                   ELSE i.apalancamiento_inversionista
         IN  IF b1 < 1 THEN 1 ELSE b1

\* _rechazo_apertura: the entry also carries the side of the rejected signal
rechazo_apertura(st, s, motivo, t) ==
    log(st, [tipo |-> "rechazo_apertura", ts |-> t, motivo |-> motivo, id_op |-> 0,
             capital_antes |-> st.inv.capital_actual,
             capital_despues |-> st.inv.capital_actual,
             tipo_senal |-> s.tipo_senal])

abiertas(ops) == Cardinality({k \in 1..Len(ops) : ops[k].abierta})

\* variant of the lookup without the test of op.abierta (told apart by
\* C23_RutaSenal)
operacion_abierta_de_sin_estado(st, s) == st.map_ticker_dir[s.tipo_senal]

\* the open operation map_ticker_dir holds for the signal's side, or 0
operacion_abierta_de(st, s) ==
    LET op_id == st.map_ticker_dir[s.tipo_senal]
    IN  IF op_id # 0 /\ st.operaciones[op_id].abierta THEN op_id ELSE 0

----------------------------------------------------------------------------
(* SimulatorCore._abrir_operacion; falla: insert_operacion raises          *)

\* variant of _abrir_operacion without the gate of lines 137-142 (told apart by
\* C9_SinAperturaTrasDrawdown)
abrir_operacion_sin_puerta(st, s, price_record, t, falla) ==
    LET i == st.inv
        apalancamiento == seleccionar_apalancamiento(i, s)
        monto == calcular_monto_operacion(i, risk)
        precio_exec == price_record.close
        cantidad == Div(monto * apalancamiento, precio_exec)
        comision == calcular_comision(precio_exec, cantidad, i.commission_pct)
        total_debitar == monto + comision
        new_id == Len(st.operaciones) + 1
        op == [NuevaOperacion(s, precio_exec, cantidad, monto, apalancamiento,
                              comision, t) EXCEPT !.id_operacion = new_id]
        i1 == debitar_capital(i, total_debitar)
        i2 == [i1 EXCEPT !.operaciones_hoy = i1.operaciones_hoy + 1]
    IN  IF ~validar_limites_inversionista(i)
        THEN rechazo_apertura(st, s, "limites_inversionista", t)
        ELSE IF ~validar_max_abiertas(i, abiertas(st.operaciones))
        THEN rechazo_apertura(st, s, "max_abiertas", t)
        ELSE IF apalancamiento = 0
        THEN rechazo_apertura(st, s, "apalancamiento_cero", t)
        ELSE IF ~validar_riesgo_monto(risk, monto)
        THEN rechazo_apertura(st, s, "monto_fuera_riesgo", t)
        ELSE IF ~validar_capital_disponible(i, total_debitar)
        THEN rechazo_apertura(st, s, "capital_insuficiente", t)
        ELSE IF falla
        THEN marcar_error_persistencia(st, "insert_operacion", t)
        ELSE log([servida(st, "insert_operacion")
                     EXCEPT !.inv = i2,
                            !.operaciones = Append(st.operaciones, op),
                            !.map_ticker_dir[op.tipo] = new_id,
                            !.comisiones_pagadas = st.comisiones_pagadas + comision],
                 Evento("apertura", t, "", new_id, i.capital_actual, i2.capital_actual))

\* variant of _abrir_operacion that tests the cap of open operations before the
\* daily cap (told apart by C24_RechazosApertura)
abrir_operacion_topes_invertidos(st, s, price_record, t, falla) ==
    LET i == st.inv
        apalancamiento == seleccionar_apalancamiento(i, s)
        monto == calcular_monto_operacion(i, risk)
        precio_exec == price_record.close
        cantidad == Div(monto * apalancamiento, precio_exec)
        comision == calcular_comision(precio_exec, cantidad, i.commission_pct)
        total_debitar == monto + comision
        new_id == Len(st.operaciones) + 1
        op == [NuevaOperacion(s, precio_exec, cantidad, monto, apalancamiento,
                              comision, t) EXCEPT !.id_operacion = new_id]
        i1 == debitar_capital(i, total_debitar)
        i2 == [i1 EXCEPT !.operaciones_hoy = i1.operaciones_hoy + 1]
    IN  IF i.drawdown_activo \/ i.halted
        THEN rechazo_apertura(st, s, "investor_halted_drawdown", t)
        ELSE IF ~validar_max_abiertas(i, abiertas(st.operaciones))
        THEN rechazo_apertura(st, s, "max_abiertas", t)
        ELSE IF ~validar_limites_inversionista(i)
        THEN rechazo_apertura(st, s, "limites_inversionista", t)
        ELSE IF apalancamiento = 0
        THEN rechazo_apertura(st, s, "apalancamiento_cero", t)
        ELSE IF ~validar_riesgo_monto(risk, monto)
        THEN rechazo_apertura(st, s, "monto_fuera_riesgo", t)
        ELSE IF ~validar_capital_disponible(i, total_debitar)
        THEN rechazo_apertura(st, s, "capital_insuficiente", t)
        ELSE IF falla
        THEN marcar_error_persistencia(st, "insert_operacion", t)
        ELSE log([servida(st, "insert_operacion")
                     EXCEPT !.inv = i2,
                            !.operaciones = Append(st.operaciones, op),
                            !.map_ticker_dir[op.tipo] = new_id,
                            !.comisiones_pagadas = st.comisiones_pagadas + comision],
                 Evento("apertura", t, "", new_id, i.capital_actual, i2.capital_actual))

\* variant of _abrir_operacion that debits the investor and counts the operation
\* before insert_operacion is called (told apart by C31_InsertFallido)
abrir_operacion_debita_antes(st, s, price_record, t, falla) ==
    LET i == st.inv
        apalancamiento == seleccionar_apalancamiento(i, s)
        monto == calcular_monto_operacion(i, risk)
        precio_exec == price_record.close
        cantidad == Div(monto * apalancamiento, precio_exec)
        comision == calcular_comision(precio_exec, cantidad, i.commission_pct)
        total_debitar == monto + comision
        new_id == Len(st.operaciones) + 1
        op == [NuevaOperacion(s, precio_exec, cantidad, monto, apalancamiento,
                              comision, t) EXCEPT !.id_operacion = new_id]
        i1 == debitar_capital(i, total_debitar)
        i2 == [i1 EXCEPT !.operaciones_hoy = i1.operaciones_hoy + 1]
    IN  IF i.drawdown_activo \/ i.halted
        THEN rechazo_apertura(st, s, "investor_halted_drawdown", t)
        ELSE IF ~validar_limites_inversionista(i)
        THEN rechazo_apertura(st, s, "limites_inversionista", t)
        ELSE IF ~validar_max_abiertas(i, abiertas(st.operaciones))
        THEN rechazo_apertura(st, s, "max_abiertas", t)
        ELSE IF apalancamiento = 0
        THEN rechazo_apertura(st, s, "apalancamiento_cero", t)
        ELSE IF ~validar_riesgo_monto(risk, monto)
        THEN rechazo_apertura(st, s, "monto_fuera_riesgo", t)
        ELSE IF ~validar_capital_disponible(i, total_debitar)
        THEN rechazo_apertura(st, s, "capital_insuficiente", t)
        ELSE IF falla
        THEN marcar_error_persistencia([st EXCEPT !.inv = i2], "insert_operacion", t)
        ELSE log([servida(st, "insert_operacion")
                     EXCEPT !.inv = i2,
                            !.operaciones = Append(st.operaciones, op),
                            !.map_ticker_dir[op.tipo] = new_id,
                            !.comisiones_pagadas = st.comisiones_pagadas + comision],
                 Evento("apertura", t, "", new_id, i.capital_actual, i2.capital_actual))

\* _abrir_operacion
abrir_operacion(st, s, price_record, t, falla) ==
    LET i == st.inv
        apalancamiento == seleccionar_apalancamiento(i, s)
        monto == calcular_monto_operacion(i, risk)
        precio_exec == price_record.close
        cantidad == Div(monto * apalancamiento, precio_exec)
        comision == calcular_comision(precio_exec, cantidad, i.commission_pct)
        total_debitar == monto + comision
        new_id == Len(st.operaciones) + 1
        op == [NuevaOperacion(s, precio_exec, cantidad, monto, apalancamiento,
                              comision, t) EXCEPT !.id_operacion = new_id]
        i1 == debitar_capital(i, total_debitar)
        i2 == [i1 EXCEPT !.operaciones_hoy = i1.operaciones_hoy + 1]
    IN  IF i.drawdown_activo \/ i.halted
        THEN rechazo_apertura(st, s, "investor_halted_drawdown", t)
        ELSE IF ~validar_limites_inversionista(i)
        THEN rechazo_apertura(st, s, "limites_inversionista", t)
        ELSE IF ~validar_max_abiertas(i, abiertas(st.operaciones))
        THEN rechazo_apertura(st, s, "max_abiertas", t)
        ELSE IF apalancamiento = 0
        THEN rechazo_apertura(st, s, "apalancamiento_cero", t)
        ELSE IF ~validar_riesgo_monto(risk, monto)
        THEN rechazo_apertura(st, s, "monto_fuera_riesgo", t)
        ELSE IF ~validar_capital_disponible(i, total_debitar)
        THEN rechazo_apertura(st, s, "capital_insuficiente", t)
        ELSE IF falla
        THEN marcar_error_persistencia(st, "insert_operacion", t)
        ELSE log([servida(st, "insert_operacion")
                     EXCEPT !.inv = i2,
                            !.operaciones = Append(st.operaciones, op),
                            !.map_ticker_dir[op.tipo] = new_id,
                            !.comisiones_pagadas = st.comisiones_pagadas + comision],
                 Evento("apertura", t, "", new_id, i.capital_actual, i2.capital_actual))

----------------------------------------------------------------------------
(* SimulatorCore._aplicar_dca; falla: update_operacion_exposicion raises   *)

aplicar_dca_core(st, op_id, price_record, t, s, falla) ==
    LET capital_antes == st.inv.capital_actual
        monto_base == calcular_monto_operacion(st.inv, risk)
        res == aplicar_dca(st.operaciones[op_id], price_record.close, monto_base,
                           st.inv, risk)
        st1 == [st EXCEPT !.inv = res.inv,
                          !.operaciones[op_id] = res.op,
                          !.comisiones_pagadas = st.comisiones_pagadas + res.comision]
    IN  IF res.rechazo # ""
        THEN log(st1, Evento("rechazo_dca", t, res.rechazo, op_id,
                             capital_antes, st1.inv.capital_actual))
        ELSE IF falla
        THEN marcar_error_persistencia(st1, "update_operacion_exposicion", t)
        ELSE log(servida(st1, "update_operacion_exposicion"),
                 Evento("dca", t, "", op_id, capital_antes, st1.inv.capital_actual))

----------------------------------------------------------------------------
(* SimulatorCore._procesar_cierres: the body of "for ev in eventos"        *)

\* variant of the handler that registers the child of a partial close without
\* re-pointing map_ticker_dir to it, line 351 left out (told apart by
\* C37_UnaAbiertaPorLado)
aplicar_evento_cierre_sin_indice(st, ev, id, capital_antes, t, falla) ==
    IF ev.tipo_evento = "cierre_total"
    THEN IF falla = "update"
         THEN [st |-> marcar_error_persistencia(st, "update_operacion_cierre_total", t),
               retorno |-> TRUE]
         ELSE [st |-> log(servida(st, "update_operacion_cierre_total"),
                          Evento("cierre_total", t, ev.motivo, id, capital_antes,
                                 st.inv.capital_actual)),
               retorno |-> FALSE]
    ELSE IF falla = "update"
         THEN [st |-> marcar_error_persistencia(st, "update_operacion_cierre_parcial", t),
               retorno |-> TRUE]
         ELSE IF falla = "insert"
         THEN [st |-> marcar_error_persistencia(
                          servida(st, "update_operacion_cierre_parcial"),
                          "insert_operacion_hija", t),
               retorno |-> TRUE]
         ELSE LET new_id == Len(st.operaciones) + 1
                  hija == [ev.hija EXCEPT !.id_operacion = new_id]
                  st1 == [servida(servida(st, "update_operacion_cierre_parcial"),
                                  "insert_operacion")
                             EXCEPT !.operaciones = Append(st.operaciones, hija)]
                  st2 == log(st1, Evento("cierre_parcial", t, ev.motivo, id,
                                         capital_antes, st.inv.capital_actual))
              IN  [st |-> log(st2, Evento("apertura_hija_parcial", t, "", new_id,
                                          st.inv.capital_actual, st.inv.capital_actual)),
                   retorno |-> FALSE]

\* falla: "no", "update" (update_operacion_cierre_total/_parcial raises) or
\* "insert" (insert_operacion of the child raises).  retorno = TRUE: the
\* handler returned from _procesar_cierres
aplicar_evento_cierre(st, ev, id, capital_antes, t, falla) ==
    IF ev.tipo_evento = "cierre_total"
    THEN IF falla = "update"
         THEN [st |-> marcar_error_persistencia(st, "update_operacion_cierre_total", t),
               retorno |-> TRUE]
         ELSE [st |-> log(servida(st, "update_operacion_cierre_total"),
                          Evento("cierre_total", t, ev.motivo, id, capital_antes,
                                 st.inv.capital_actual)),
               retorno |-> FALSE]
    ELSE IF falla = "update"
         THEN [st |-> marcar_error_persistencia(st, "update_operacion_cierre_parcial", t),
               retorno |-> TRUE]
         ELSE IF falla = "insert"
         THEN [st |-> marcar_error_persistencia(
                          servida(st, "update_operacion_cierre_parcial"),
                          "insert_operacion_hija", t),
               retorno |-> TRUE]
         ELSE LET new_id == Len(st.operaciones) + 1
                  hija == [ev.hija EXCEPT !.id_operacion = new_id]
                  st1 == [servida(servida(st, "update_operacion_cierre_parcial"),
                                  "insert_operacion")
                             EXCEPT !.operaciones = Append(st.operaciones, hija),
                                    !.map_ticker_dir[hija.tipo] = new_id]
                  st2 == log(st1, Evento("cierre_parcial", t, ev.motivo, id,
                                         capital_antes, st.inv.capital_actual))
              IN  [st |-> log(st2, Evento("apertura_hija_parcial", t, "", new_id,
                                          st.inv.capital_actual, st.inv.capital_actual)),
                   retorno |-> FALSE]

RECURSIVE aplicar_eventos_cierre(_, _, _, _, _, _)
aplicar_eventos_cierre(st, evs, id, capital_antes, t, falla) ==
    IF evs = <<>> THEN [st |-> st, retorno |-> FALSE]
    ELSE LET r == aplicar_evento_cierre(st, Head(evs), id, capital_antes, t, falla)
         IN  IF r.retorno THEN r
             ELSE aplicar_eventos_cierre(r.st, Tail(evs), id, capital_antes, t, falla)

\* variant of the checkpoint that sets halted but lets the loop go on (told apart
\* by C7_HaltedTerminal)
checkpoint_cierres_sin_retorno(r) ==
    IF r.retorno THEN r
    ELSE IF r.st.inv.drawdown_activo /\ ~r.st.inv.halted
    THEN [st |-> [r.st EXCEPT !.inv.halted = TRUE], retorno |-> FALSE]
    ELSE IF r.st.inv.desincronizado THEN [st |-> r.st, retorno |-> TRUE]
    ELSE r

\* variant of the checkpoint without the drawdown test of lines 381-383 (told
\* apart by C32_ParadaInmediata)
checkpoint_cierres_sin_drawdown(r) ==
    IF r.retorno THEN r
    ELSE IF r.st.inv.desincronizado THEN [st |-> r.st, retorno |-> TRUE]
    ELSE r

\* the checkpoint that ends an iteration which had events (lines 381-385)
checkpoint_cierres(r) ==
    IF r.retorno THEN r
    ELSE IF r.st.inv.drawdown_activo /\ ~r.st.inv.halted
    THEN [st |-> [r.st EXCEPT !.inv.halted = TRUE], retorno |-> TRUE]
    ELSE IF r.st.inv.desincronizado THEN [st |-> r.st, retorno |-> TRUE]
    ELSE r

\* variant of the loop head that skips no operation (told apart by
\* C4_UnCierrePorOperacion)
omite_operacion_nunca(op) == FALSE

\* "if not op.abierta: continue" at the head of an iteration
omite_operacion(op) == ~op.abierta

\* an iteration that left before the cascade (closed operation, or no bar)
sin_evaluar(st) ==
    [st |-> st, retorno |-> FALSE, evaluada |-> FALSE, op |-> Nil, eventos |-> <<>>]

\* an iteration that ran the cascade on op1 and handled its events evs
evaluada_con(c, op1, evs) ==
    [st |-> c.st, retorno |-> c.retorno, evaluada |-> TRUE, op |-> op1, eventos |-> evs]

\* variant of the handling of the cascade's result that undoes the closure in
\* memory when its persistence write raises (told apart by
\* C34_CierreSobreviveFallo)
aplicar_resultado_cierre_con_reversion(st, id, op1, r, t, falla) ==
    IF r.eventos = <<>>
    THEN [st |-> [st EXCEPT !.inv = r.inv, !.operaciones[id] = r.op],
          retorno |-> FALSE, evaluada |-> TRUE, op |-> op1, eventos |-> <<>>]
    ELSE IF falla # "no"
    THEN evaluada_con([st |-> marcar_error_persistencia(st, "update_operacion", t),
                       retorno |-> TRUE],
                      op1, r.eventos)
    ELSE evaluada_con(
             checkpoint_cierres(
                 aplicar_eventos_cierre([st EXCEPT !.inv = r.inv, !.operaciones[id] = r.op],
                                        r.eventos, id, st.inv.capital_actual, t, falla)),
             op1, r.eventos)

\* lines 311-385: r is what evaluar_cierres_reglas returned for op1, the
\* operation after actualizar_extremos; the objects it mutated are stored first
aplicar_resultado_cierre(st, id, op1, r, t, falla) ==
    IF r.eventos = <<>>
    THEN [st |-> [st EXCEPT !.inv = r.inv, !.operaciones[id] = r.op],
          retorno |-> FALSE, evaluada |-> TRUE, op |-> op1, eventos |-> <<>>]
    ELSE evaluada_con(
             checkpoint_cierres(
                 aplicar_eventos_cierre([st EXCEPT !.inv = r.inv, !.operaciones[id] = r.op],
                                        r.eventos, id, st.inv.capital_actual, t, falla)),
             op1, r.eventos)

\* lines 302-310 on op1
evaluar_cierre(st, id, op1, price_record, t, falla) ==
    aplicar_resultado_cierre(
        st, id, op1,
        evaluar_cierres_reglas(op1, price_record.high, price_record.low,
                               price_record.close, st.inv, t),
        t, falla)

\* variant of the iteration that leaves the loop when the operation has no bar
\* (told apart by C35_SinVelaEnCierre)
iterar_cierre_sin_vela_retorna(st, id, price_record, t, falla) ==
    IF omite_operacion(st.operaciones[id]) THEN sin_evaluar(st)
    ELSE IF price_record = Nil THEN [sin_evaluar(st) EXCEPT !.retorno = TRUE]
    ELSE evaluar_cierre(st, id,
                        actualizar_extremos(st.operaciones[id], price_record.high,
                                            price_record.low),
                        price_record, t, falla)

\* one iteration of "for op in list(self.operaciones.values())" on operation id
\* with the bar price_record (Nil: no bar)
iterar_cierre(st, id, price_record, t, falla) ==
    IF omite_operacion(st.operaciones[id]) THEN sin_evaluar(st)
    ELSE IF price_record = Nil THEN sin_evaluar(st)
    ELSE evaluar_cierre(st, id,
                        actualizar_extremos(st.operaciones[id], price_record.high,
                                            price_record.low),
                        price_record, t, falla)

----------------------------------------------------------------------------
(* finalization.py and SimulatorCore.finalizar                             *)

\* finalizar_simulacion: logs pnl_no_realizado for the open operations from k on;
\* precio = 0: the ticker has no entry in precios_close_final
RECURSIVE finalizar_simulacion(_, _, _, _)
finalizar_simulacion(st, k, precio, t) ==
    IF k > Len(st.operaciones) THEN st
    ELSE LET op == st.operaciones[k]
             st1 == IF op.abierta /\ op.cantidad > 0 /\ precio # 0
                    THEN log(st, Evento("pnl_no_realizado", t, "", k,
                                        st.inv.capital_actual, st.inv.capital_actual))
                    ELSE st
         IN  finalizar_simulacion(st1, k + 1, precio, t)

\* falla: update_capital_inversionista or update_pyg_no_realizado raises
finalizar(st, precio, t, falla) ==
    IF st.inv.desincronizado THEN st
    ELSE IF ~st.inv.halted
    THEN LET st1 == finalizar_simulacion(st, 1, precio, t)
             st2 == log(st1, Evento("finalizacion_inversionista", t, "", 0,
                                    st.inv.capital_actual, st.inv.capital_actual))
         IN  IF falla THEN marcar_error_persistencia(st2, "finalizar_snapshot", t)
             ELSE st2
    ELSE st

----------------------------------------------------------------------------
(* The state machine                                                       *)

Minutos == TsInicio..TsFin

\* the rows of the signal store: at most MaxSenales, in minute order
ordenadas(sq) == \A k \in 1..(Len(sq) - 1) : sq[k][1] <= sq[k + 1][1]
ALMACENES ==
    {sq \in UNION {[1..n -> Minutos \X SENALES] : n \in 0..MaxSenales} : ordenadas(sq)}

\* get_signals_by_minute
RECURSIVE get_signals_by_minute(_, _)
get_signals_by_minute(sq, t) ==
    IF sq = <<>> THEN <<>>
    ELSE IF Head(sq)[1] = t
         THEN <<Head(sq)[2]>> \o get_signals_by_minute(Tail(sq), t)
         ELSE get_signals_by_minute(Tail(sq), t)

RECURSIVE sin_minuto(_, _)
sin_minuto(sq, t) ==
    IF sq = <<>> THEN <<>>
    ELSE IF Head(sq)[1] = t THEN sin_minuto(Tail(sq), t)
         ELSE <<Head(sq)>> \o sin_minuto(Tail(sq), t)

RECURSIVE Rango(_, _)
Rango(a, b) == IF a > b THEN <<>> ELSE <<a>> \o Rango(a + 1, b)

estado == [inv |-> inv, operaciones |-> operaciones, map_ticker_dir |-> map_ticker_dir,
           eventos |-> eventos, comisiones_pagadas |-> comisiones_pagadas,
           fallos |-> fallos, persistence |-> persistence]

Guardar(st) ==
    /\ inv' = st.inv
    /\ operaciones' = st.operaciones
    /\ map_ticker_dir' = st.map_ticker_dir
    /\ eventos' = st.eventos
    /\ comisiones_pagadas' = st.comisiones_pagadas
    /\ fallos' = st.fallos
    /\ persistence' = st.persistence

\* no call served yet; callback_falla: insert_log_evento raises in this run
PersistenceInicial ==
    [callback_falla |-> FALSE, insert_log_evento |-> 0, excepciones_callback |-> 0,
     insert_operacion |-> 0, update_operacion_cierre_total |-> 0,
     update_operacion_cierre_parcial |-> 0, update_operacion_exposicion |-> 0]

CascadaInicial == [id |-> 0, ts |-> 0, op |-> Nil, vela |-> Nil, eventos |-> <<>>,
                   inv_antes |-> Nil, inv_despues |-> Nil]

Init ==
    /\ inv = InvestorInicial
    /\ operaciones = <<>>
    /\ map_ticker_dir = [t \in TIPOS |-> 0]
    /\ eventos = <<>>
    /\ ts = TsInicio
    /\ pc = "minuto"
    /\ pendientes_cierre = <<>>
    /\ pendientes_senales = <<>>
    /\ vela = Nil
    /\ senales \in ALMACENES
    /\ comisiones_pagadas = 0
    /\ cascada = CascadaInicial
    /\ fallos = 0
    /\ persistence = PersistenceInicial

\* head of "for ts in range(ts_inicio, ts_fin + 1)": lines 388-393 and the
\* snapshot of line 294; the price store holds one bar of VELAS, or none
IniciarMinuto ==
    /\ pc = "minuto"
    /\ IF ts > TsFin \/ inv.halted \/ inv.desincronizado
       THEN /\ pc' = "terminado"
            /\ UNCHANGED <<inv, pendientes_cierre, vela>>
       ELSE /\ inv' = reset_diario_si_cambia_dia(inv, ts \div MinutosDia)
            /\ pendientes_cierre' = Rango(1, Len(operaciones))
            /\ vela' \in VELAS \cup {Nil}
            /\ pc' = "cierres"
    /\ UNCHANGED <<operaciones, map_ticker_dir, eventos, ts, pendientes_senales,
                   senales, comisiones_pagadas, cascada, fallos,
                   persistence>>

\* variant of the loop that iterates the live collection, so that an operation
\* added by the iteration is visited in the same minute (told apart by
\* C33_HijaNoEvaluada)
ProcesarCierre_coleccion_viva ==
    /\ pc = "cierres"
    /\ pendientes_cierre # <<>>
    /\ \E falla \in {"no", "update", "insert"} :
         \E r \in {iterar_cierre(estado, Head(pendientes_cierre), vela, ts, falla)} :
            /\ Guardar(r.st)
            /\ pendientes_cierre' =
                   IF r.retorno THEN <<>>
                   ELSE Tail(pendientes_cierre)
                            \o Rango(Len(operaciones) + 1, Len(r.st.operaciones))
            /\ cascada' = IF r.evaluada
                          THEN [id |-> Head(pendientes_cierre), ts |-> ts, op |-> r.op,
                                vela |-> vela, eventos |-> r.eventos,
                                inv_antes |-> inv, inv_despues |-> r.st.inv]
                          ELSE cascada
    /\ UNCHANGED <<ts, pc, pendientes_senales, vela, senales>>

\* one iteration of the loop of _procesar_cierres
ProcesarCierre ==
    /\ pc = "cierres"
    /\ pendientes_cierre # <<>>
    /\ \E falla \in {"no", "update", "insert"} :
         \E r \in {iterar_cierre(estado, Head(pendientes_cierre), vela, ts, falla)} :
            /\ Guardar(r.st)
            /\ pendientes_cierre' = IF r.retorno THEN <<>> ELSE Tail(pendientes_cierre)
            /\ cascada' = IF r.evaluada
                          THEN [id |-> Head(pendientes_cierre), ts |-> ts, op |-> r.op,
                                vela |-> vela, eventos |-> r.eventos,
                                inv_antes |-> inv, inv_despues |-> r.st.inv]
                          ELSE cascada
    /\ UNCHANGED <<ts, pc, pendientes_senales, vela, senales>>

\* variant of lines 395-400 without the halted check: the signals of the minute
\* are processed whatever the closures did (told apart by C10_TrasDrawdownSinSenales)
FinCierres_sin_parada ==
    /\ pc = "cierres"
    /\ pendientes_cierre = <<>>
    /\ pendientes_senales' = get_signals_by_minute(senales, ts)
    /\ senales' = sin_minuto(senales, ts)
    /\ pc' = "senales"
    /\ UNCHANGED <<inv, operaciones, map_ticker_dir, eventos, ts, pendientes_cierre,
                   vela, comisiones_pagadas, cascada, fallos,
                   persistence>>

\* _procesar_cierres returned: lines 395-400
FinCierres ==
    /\ pc = "cierres"
    /\ pendientes_cierre = <<>>
    /\ IF inv.halted \/ inv.desincronizado
       THEN /\ pc' = "terminado"
            /\ UNCHANGED <<pendientes_senales, senales>>
       ELSE /\ pendientes_senales' = get_signals_by_minute(senales, ts)
            /\ senales' = sin_minuto(senales, ts)
            /\ pc' = "senales"
    /\ UNCHANGED <<inv, operaciones, map_ticker_dir, eventos, ts, pendientes_cierre,
                   vela, comisiones_pagadas, cascada, fallos,
                   persistence>>

\* variant of the body that looks the bar up before it checks the multipliers
\* (told apart by C22_MultiplicadoresInvalidos)
procesar_senal_precio_primero(st, s, price_record, t, falla) ==
    LET op_id == operacion_abierta_de(st, s)
    IN  IF price_record = Nil
        THEN rechazo_apertura(st, s, "sin_precio_minuto", t)
        ELSE IF s.mult_sl_asignado <= 0 \/ s.mult_tp_asignado <= 0
        THEN IF op_id # 0
             THEN log(st, Evento("rechazo_dca", t, "multiplicadores_invalidos", op_id,
                                 st.inv.capital_actual, st.inv.capital_actual))
             ELSE rechazo_apertura(st, s, "multiplicadores_invalidos", t)
        ELSE IF op_id # 0
        THEN aplicar_dca_core(st, op_id, price_record, t, s, falla)
        ELSE abrir_operacion(st, s, price_record, t, falla)

\* variant of the body that rejects a signal without bar as a DCA when an
\* operation of its side is open (told apart by C29_SinPrecioMinuto)
procesar_senal_sin_precio_dca(st, s, price_record, t, falla) ==
    LET op_id == operacion_abierta_de(st, s)
    IN  IF s.mult_sl_asignado <= 0 \/ s.mult_tp_asignado <= 0
        THEN IF op_id # 0
             THEN log(st, Evento("rechazo_dca", t, "multiplicadores_invalidos", op_id,
                                 st.inv.capital_actual, st.inv.capital_actual))
             ELSE rechazo_apertura(st, s, "multiplicadores_invalidos", t)
        ELSE IF price_record = Nil
        THEN IF op_id # 0
             THEN log(st, Evento("rechazo_dca", t, "sin_precio_minuto", op_id,
                                 st.inv.capital_actual, st.inv.capital_actual))
             ELSE rechazo_apertura(st, s, "sin_precio_minuto", t)
        ELSE IF op_id # 0
        THEN aplicar_dca_core(st, op_id, price_record, t, s, falla)
        ELSE abrir_operacion(st, s, price_record, t, falla)

\* the body of "for s in signals" for one signal (lines 402-453)
procesar_senal(st, s, price_record, t, falla) ==
    LET op_id == operacion_abierta_de(st, s)
    IN  IF s.mult_sl_asignado <= 0 \/ s.mult_tp_asignado <= 0
        THEN IF op_id # 0
             THEN log(st, Evento("rechazo_dca", t, "multiplicadores_invalidos", op_id,
                                 st.inv.capital_actual, st.inv.capital_actual))
             ELSE rechazo_apertura(st, s, "multiplicadores_invalidos", t)
        ELSE IF price_record = Nil
        THEN rechazo_apertura(st, s, "sin_precio_minuto", t)
        ELSE IF op_id # 0
        THEN aplicar_dca_core(st, op_id, price_record, t, s, falla)
        ELSE abrir_operacion(st, s, price_record, t, falla)

ProcesarSenal ==
    /\ pc = "senales"
    /\ pendientes_senales # <<>>
    /\ \E falla \in BOOLEAN :
          LET st == procesar_senal(estado, Head(pendientes_senales), vela, ts, falla)
          IN  /\ Guardar(st)
              /\ pc' = IF st.inv.desincronizado THEN "terminado" ELSE "senales"
    /\ pendientes_senales' = Tail(pendientes_senales)
    /\ UNCHANGED <<ts, pendientes_cierre, vela, senales, cascada>>

\* variant of the end of the minute that runs the closures again at the same ts
\* after its signals (told apart by C2_CierresAntesDeSenales)
FinSenales_repite_cierres ==
    /\ pc = "senales"
    /\ pendientes_senales = <<>>
    /\ pendientes_cierre' = Rango(1, Len(operaciones))
    /\ pc' = "cierres"
    /\ UNCHANGED <<inv, operaciones, map_ticker_dir, eventos, ts, vela,
                   pendientes_senales, senales, comisiones_pagadas, cascada, fallos,
                   persistence>>

\* variant of the end of the minute that does not advance ts (told apart by
\* C36_RunTermina)
FinSenales_sin_avance ==
    /\ pc = "senales"
    /\ pendientes_senales = <<>>
    /\ vela' = Nil
    /\ pc' = "minuto"
    /\ UNCHANGED <<inv, operaciones, map_ticker_dir, eventos, ts, pendientes_cierre,
                   pendientes_senales, senales, comisiones_pagadas, cascada, fallos,
                   persistence>>

\* the signals of the minute are exhausted: next ts of the range
FinSenales ==
    /\ pc = "senales"
    /\ pendientes_senales = <<>>
    /\ ts' = ts + 1
    /\ vela' = Nil
    /\ pc' = "minuto"
    /\ UNCHANGED <<inv, operaciones, map_ticker_dir, eventos, pendientes_cierre,
                   pendientes_senales, senales, comisiones_pagadas, cascada, fallos,
                   persistence>>

\* sim.finalizar(precios_close_final) after run() returned
Finalizar ==
    /\ pc = "terminado"
    /\ \E precio \in {0, 100}, falla \in BOOLEAN :
          Guardar(finalizar(estado, precio, ts, falla))
    /\ pc' = "finalizado"
    /\ UNCHANGED <<ts, pendientes_cierre, pendientes_senales, vela, senales, cascada>>

Next ==
    \/ IniciarMinuto
    \/ ProcesarCierre
    \/ FinCierres
    \/ ProcesarSenal
    \/ FinSenales
    \/ Finalizar

Spec == Init /\ [][Next]_vars

\* the closure loop and the signal loop advance: a step of ProcesarCierre or
\* ProcesarSenal as seen on the rest of the snapshot and of the minute's signals
AvanceCierres ==
    /\ pc = "cierres"
    /\ pendientes_cierre # <<>>
    /\ pendientes_cierre' \in {<<>>, Tail(pendientes_cierre)}
AvanceSenales ==
    /\ pc = "senales"
    /\ pendientes_senales # <<>>
    /\ pendientes_senales' = Tail(pendientes_senales)

\* the same run, in which a call of run() keeps executing until it returns: no
\* head of a minute, loop iteration or end of a loop is suspended for ever
SpecJusta ==
    /\ Init /\ [][Next]_vars
    /\ WF_vars(IniciarMinuto) /\ WF_vars(FinCierres) /\ WF_vars(FinSenales)
    /\ WF_pendientes_cierre(AvanceCierres)
    /\ WF_pendientes_senales(AvanceSenales)

\* the same run over the configurations of INVERSIONISTAS and the signals of
\* every strategy of the cache
ALMACENES_CONFIG ==
    {sq \in UNION {[1..n -> Minutos \X SENALES_CONFIG] : n \in 0..MaxSenales} :
        ordenadas(sq)}

\* the configurations of a run: an investor and a signal store.  The leveraged
\* investor runs on a store of at most one signal, because the quantity a DCA
\* buys after a leveraged loss is not an integer
CONFIGURACIONES ==
    ({InvestorInicial, InvestorSinTope} \X ALMACENES_CONFIG)
        \cup ({InvestorApalancado} \X {sq \in ALMACENES_CONFIG : Len(sq) <= 1})

InitConfig ==
    /\ \E c \in CONFIGURACIONES : inv = c[1] /\ senales = c[2]
    /\ operaciones = <<>>
    /\ map_ticker_dir = [t \in TIPOS |-> 0]
    /\ eventos = <<>>
    /\ ts = TsInicio
    /\ pc = "minuto"
    /\ pendientes_cierre = <<>>
    /\ pendientes_senales = <<>>
    /\ vela = Nil
    /\ comisiones_pagadas = 0
    /\ cascada = CascadaInicial
    /\ fallos = 0
    /\ persistence = PersistenceInicial

SpecConfig == InitConfig /\ [][Next]_vars

\* the signal stores over the signals of S
AlmacenesDe(S) ==
    {sq \in UNION {[1..n -> Minutos \X S] : n \in 0..MaxSenales} : ordenadas(sq)}

\* the stores whose signals all arrive at the first minute of the run
AlmacenesIniciales(S) ==
    {sq \in AlmacenesDe(S) : \A k \in 1..Len(sq) : sq[k][1] = TsInicio}

\* the scenarios of the entry paths: an investor, a signal store and whether the
\* journal's persistence callback raises.  The investor with the tight capital
\* and the one with entry slippage receive their signals at the first minute,
\* the latter LONG signals only: the quantity a DCA buys with what a close
\* leaves of the tight capital, and the entry price a DCA at the slipped price
\* averages on a SHORT operation or on a child, are not integers
ESCENARIOS ==
    (({InvestorTopes, InvestorCapitalAlto}
          \X AlmacenesDe({SenalLong, SenalShort}) \X {FALSE})
        \cup ({InvestorCapitalJusto}
                 \X AlmacenesIniciales({SenalLong, SenalShort}) \X {FALSE})
        \cup ({InvestorParametrosSenal}
                 \X AlmacenesDe({SenalLong, SenalSinApalancamiento}) \X {FALSE})
        \cup ({InvestorDeslizamiento} \X AlmacenesIniciales({SenalLong}) \X {FALSE})
        \cup ({InvestorInicial} \X ALMACENES \X {TRUE}))

InitEscenarios ==
    /\ \E c \in ESCENARIOS :
          /\ inv = c[1]
          /\ senales = c[2]
          /\ persistence = [PersistenceInicial EXCEPT !.callback_falla = c[3]]
    /\ operaciones = <<>>
    /\ map_ticker_dir = [t \in TIPOS |-> 0]
    /\ eventos = <<>>
    /\ ts = TsInicio
    /\ pc = "minuto"
    /\ pendientes_cierre = <<>>
    /\ pendientes_senales = <<>>
    /\ vela = Nil
    /\ comisiones_pagadas = 0
    /\ cascada = CascadaInicial
    /\ fallos = 0

SpecEscenarios == InitEscenarios /\ [][Next]_vars

----------------------------------------------------------------------------
(* Properties                                                              *)

\* the journal positions holding an event of one of the kinds
EventosDe(tipos) == {k \in 1..Len(eventos) : eventos[k].tipo \in tipos}

TiposCierre == {"cierre_total", "cierre_parcial", "apertura_hija_parcial"}
TiposSenal == {"apertura", "dca", "rechazo_apertura", "rechazo_dca"}

\* the events a step appends to the journal
EventosNuevos == {eventos'[k] : k \in (Len(eventos) + 1)..Len(eventos')}

RECURSIVE InvertidoAbierto(_)
InvertidoAbierto(ops) ==
    IF ops = <<>> THEN 0
    ELSE (IF Head(ops).abierta THEN Head(ops).capital_invertido ELSE 0)
         + InvertidoAbierto(Tail(ops))

\* the take-profit and stop-loss triggers of a bar v on an operation
TocaTp(op, v) ==
    (op.tipo = "LONG" /\ v.high >= op.take_profit)
    \/ (op.tipo = "SHORT" /\ v.low <= op.take_profit)
TocaSl(op, v) ==
    (op.tipo = "LONG" /\ v.low <= op.stop_loss)
    \/ (op.tipo = "SHORT" /\ v.high >= op.stop_loss)

\* the realized loss has reached capital_inicial * drawdown_max_pct / 100
PerdidaEnLimite ==
    /\ inv.drawdown_max_pct > 0
    /\ (0 - inv.pnl_realizado_acumulado) * 100 >= inv.capital_inicial * inv.drawdown_max_pct

\* C1: capital conservation.  In every state of a run in which no persistence
\* call has failed, capital_actual plus the capital_invertido of the open
\* operations equals capital_inicial plus the realized net P&L registered so far
\* minus the commissions debited at open and at DCA.
C1_ConservacionCapital ==
    fallos = 0 =>
        inv.capital_actual + InvertidoAbierto(operaciones)
            = inv.capital_inicial + inv.pnl_realizado_acumulado - comisiones_pagadas

\* C2: within a minute the closures come before the signals.  No signal is
\* processed while an operation of the minute's snapshot still waits for its
\* closure evaluation, and in the journal no apertura, dca, rechazo_apertura or
\* rechazo_dca event of a minute precedes a cierre_total, cierre_parcial or
\* apertura_hija_parcial event of the same minute.
C2_CierresAntesDeSenales ==
    /\ pc = "senales" => pendientes_cierre = <<>>
    /\ \A a, b \in 1..Len(eventos) :
          (a < b /\ eventos[a].ts = eventos[b].ts /\ eventos[a].tipo \in TiposSenal)
              => eventos[b].tipo \notin TiposCierre

\* a minute whose journal has a closure event and, after it, a signal event
C2_Witness ==
    \E a, b \in 1..Len(eventos) :
        /\ a < b
        /\ eventos[a].ts = eventos[b].ts
        /\ eventos[a].tipo \in TiposCierre
        /\ eventos[b].tipo \in TiposSenal

\* C3: take profit wins over stop loss.  When the cascade is evaluated on an
\* operation and a bar on which both the take-profit and the stop-loss trigger
\* hold, it emits exactly one event: a cierre_total with motive 'Take Profit',
\* executed at the take-profit price with the exit slippage.
C3_TpSobreSl ==
    (cascada.id # 0 /\ TocaTp(cascada.op, cascada.vela) /\ TocaSl(cascada.op, cascada.vela))
        => /\ Len(cascada.eventos) = 1
           /\ cascada.eventos[1].tipo_evento = "cierre_total"
           /\ cascada.eventos[1].motivo = "Take Profit"
           /\ cascada.eventos[1].precio_exec * 100 =
                  cascada.op.take_profit
                  * (IF cascada.op.tipo = "LONG"
                     THEN 100 - cascada.inv_antes.slippage_close_pct
                     ELSE 100 + cascada.inv_antes.slippage_close_pct)

\* the cascade has closed an operation at take profit on a bar that also
\* touched its stop loss
C3_Witness ==
    /\ cascada.id # 0
    /\ TocaTp(cascada.op, cascada.vela)
    /\ TocaSl(cascada.op, cascada.vela)
    /\ cascada.eventos # <<>>
    /\ ~operaciones[cascada.id].abierta

\* C4: at most one closure per operation and bar.  A cascade evaluation emits
\* zero or one event; it emits one only for an operation that was open and
\* leaves it closed; and the journal holds at most one cierre_total or
\* cierre_parcial event per operation, so an operation is closed and credited
\* at most once.
C4_UnCierrePorOperacion ==
    /\ Len(cascada.eventos) <= 1
    /\ cascada.eventos # <<>> =>
          (cascada.op.abierta /\ ~operaciones[cascada.id].abierta)
    /\ \A id \in 1..Len(operaciones) :
          Cardinality({k \in EventosDe({"cierre_total", "cierre_parcial"}) :
                          eventos[k].id_op = id}) <= 1

\* an operation closed in an earlier minute, with the closure loop of a later
\* minute already behind
C4_Witness ==
    /\ pc = "senales"
    /\ \E k \in EventosDe({"cierre_total", "cierre_parcial"}) :
          /\ eventos[k].ts < ts
          /\ ~operaciones[eventos[k].id_op].abierta

C6_FalloPersistenciaDetiene ==
    /\ [](/\ fallos <= 1
          /\ Cardinality(EventosDe({"error_persistencia"})) = fallos
          /\ (fallos > 0) = inv.desincronizado
          /\ inv.desincronizado => inv.halted)
    /\ [][fallos' # fallos =>
              /\ fallos' = fallos + 1
              /\ eventos'[Len(eventos')].tipo = "error_persistencia"
              /\ inv'.desincronizado /\ inv'.halted]_vars
    /\ [][inv.desincronizado =>
              UNCHANGED <<inv, operaciones, map_ticker_dir, eventos, ts,
                          pendientes_cierre, pendientes_senales, vela, senales,
                          comisiones_pagadas, cascada, fallos,
                   persistence>>]_vars

\* a run that ended after a failed write, with a signal of the minute left
\* unprocessed
C6_Witness ==
    /\ pc = "finalizado"
    /\ inv.desincronizado
    /\ eventos[Len(eventos)].tipo = "error_persistencia"
    /\ pendientes_senales # <<>>

\* C7: desincronizado implies halted, and halted is terminal.  Once halted is
\* true it stays true, and no apertura, dca, cierre_total or cierre_parcial
\* event is journaled by any step taken from a state in which halted is true.
C7_HaltedTerminal ==
    /\ [](inv.desincronizado => inv.halted)
    /\ [][inv.halted =>
              /\ inv'.halted
              /\ \A e \in EventosNuevos :
                    e.tipo \notin {"apertura", "dca", "cierre_total", "cierre_parcial"}]_vars

\* a run that a drawdown halted while another operation was still open
C7_Witness ==
    /\ pc = "finalizado"
    /\ inv.halted
    /\ ~inv.desincronizado
    /\ \E k \in 1..Len(operaciones) : operaciones[k].abierta

\* C8: the drawdown is checked after every realized-P&L registration.  In a
\* run in which no persistence call has failed, after any closure, if
\* drawdown_max_pct > 0 and the realized loss has reached
\* capital_inicial * drawdown_max_pct / 100, then drawdown_activo is true and
\* the checkpoint of the closure loop has set halted.
C8_DrawdownTrasCadaCierre ==
    (fallos = 0 /\ PerdidaEnLimite) => (inv.drawdown_activo /\ inv.halted)

\* C9: the drawdown halt.  Once drawdown_activo is true it stays true and no
\* step journals an apertura; and _abrir_operacion, called in any state of a
\* run with drawdown_activo set, journals a rejection and never an apertura.
C9_SinAperturaTrasDrawdown ==
    /\ [][inv.drawdown_activo =>
              /\ inv'.drawdown_activo
              /\ \A e \in EventosNuevos : e.tipo # "apertura"]_vars
    /\ [](\A s \in SENALES, v \in VELAS, falla \in BOOLEAN :
              LET st == abrir_operacion([estado EXCEPT !.inv.drawdown_activo = TRUE],
                                        s, v, ts, falla)
              IN  /\ Len(st.eventos) = Len(eventos) + 1
                  /\ st.eventos[Len(st.eventos)].tipo = "rechazo_apertura"
                  /\ st.operaciones = operaciones
                  /\ st.inv.capital_actual = inv.capital_actual)

\* a run that opened an operation, tripped the drawdown and ended
C9_Witness ==
    /\ pc = "finalizado"
    /\ inv.drawdown_activo
    /\ EventosDe({"apertura"}) # {}

\* the rows of the signal store for a minute after ts, with valid multipliers
SenalesPosteriores ==
    {k \in 1..Len(senales) :
        /\ senales[k][1] > ts
        /\ senales[k][1] <= TsFin
        /\ senales[k][2].mult_sl_asignado > 0
        /\ senales[k][2].mult_tp_asignado > 0}

\* C10 as stated: after a drawdown trip (the closure loop has set halted), a
\* signal with valid multipliers of a later minute within [ts_inicio, ts_fin]
\* yields a rechazo_apertura event with motive investor_halted_drawdown.
C10_SenalPosteriorRechazada ==
    (/\ pc = "finalizado"
     /\ PerdidaEnLimite /\ inv.drawdown_activo /\ inv.halted /\ ~inv.desincronizado)
        => \A k \in SenalesPosteriores :
              \E e \in EventosDe({"rechazo_apertura"}) :
                  /\ eventos[e].motivo = "investor_halted_drawdown"
                  /\ eventos[e].ts = senales[k][1]

\* C10 amended: after a drawdown trip run() stops at its next halted check.
\* From a state in which halted is true no signal is fetched from the signal
\* store and nothing is journaled, and no run journals a rechazo_apertura with
\* motive investor_halted_drawdown.
C10_TrasDrawdownSinSenales ==
    /\ [](\A k \in 1..Len(eventos) : eventos[k].motivo # "investor_halted_drawdown")
    /\ [][inv.halted => (eventos' = eventos /\ senales' = senales
                         /\ pendientes_senales' = pendientes_senales)]_vars

\* a run that a drawdown halted with a valid signal of a later minute still in
\* the signal store
C10_Witness ==
    /\ pc = "finalizado"
    /\ PerdidaEnLimite /\ inv.drawdown_activo /\ inv.halted /\ ~inv.desincronizado
    /\ SenalesPosteriores # {}

----------------------------------------------------------------------------
(* Finalization and the daily counter                                      *)

\* C11: once finalizar() has run after a drawdown trip (halted, not
\* desincronizado), the journal holds a finalizacion_inversionista event
C11_FinalizaTrasDrawdown ==
    (pc = "finalizado" /\ inv.drawdown_activo /\ inv.halted /\ ~inv.desincronizado)
        => EventosDe({"finalizacion_inversionista"}) # {}

\* a step that starts processing a minute of another day than the previous one
CambiaDia == pc = "minuto" /\ pc' = "cierres" /\ inv.dia_actual # ts \div MinutosDia

\* C12: operaciones_hoy never exceeds max_operaciones_diarias, whatever the
\* configured cap (0 included), and it returns to 0 exactly in the steps that
\* start the first processed minute of another day
C12_TopeDiario ==
    /\ [](inv.operaciones_hoy <= inv.max_operaciones_diarias)
    /\ [][IF CambiaDia THEN inv'.operaciones_hoy = 0
                       ELSE inv'.operaciones_hoy >= inv.operaciones_hoy]_vars

----------------------------------------------------------------------------
(* Capital and partial closes                                              *)

\* C13: the investor's capital_actual is never negative, whatever opens, DCAs
\* and (leveraged) closures happened (stated for the runs in which no
\* persistence call failed)
C13_CapitalNoNegativo == fallos = 0 => inv.capital_actual >= 0

\* the cierre_parcial events of the last cascade evaluation of the run
ParcialesDeCascada ==
    {k \in 1..Len(cascada.eventos) : cascada.eventos[k].tipo_evento = "cierre_parcial"}

\* what cerrar_parcial_creando_hija returned for the k-th event of the cascade
ParcialDevuelto(k) ==
    cerrar_parcial_creando_hija(cascada.op, cascada.eventos[k].precio_exec,
                                cascada.eventos[k].comision, cascada.ts)

\* C14: a partial close that creates a child splits the parent: the parent's
\* quantity before the call is qty_liq + child.cantidad, its capital_invertido
\* before the call is capital_liq + child.capital_invertido, and the child's
\* capital_bloqueado equals its capital_invertido
C14_ConservacionHija ==
    \A k \in ParcialesDeCascada :
        /\ ParcialDevuelto(k).creado
        /\ ParcialDevuelto(k).qty_liq = cascada.eventos[k].cantidad
        /\ cascada.op.cantidad =
               cascada.eventos[k].cantidad + cascada.eventos[k].hija.cantidad
        /\ cascada.op.capital_invertido =
               ParcialDevuelto(k).capital_liq + cascada.eventos[k].hija.capital_invertido
        /\ cascada.eventos[k].hija.capital_bloqueado =
               cascada.eventos[k].hija.capital_invertido

\* a partial close has split a parent of 600 units and 60000 of margin into a
\* liquidated half and a child that holds the other half
C14_Witness ==
    /\ ParcialesDeCascada # {}
    /\ cascada.op.cantidad = 600
    /\ cascada.op.capital_invertido = 60000
    /\ \E k \in ParcialesDeCascada :
          /\ cascada.eventos[k].cantidad = 300
          /\ cascada.eventos[k].hija.cantidad = 300
          /\ cascada.eventos[k].hija.capital_invertido = 30000

\* C15: a partial close that creates a child raises the investor's
\* capital_actual by exactly capital_liq + pnl_parcial_net and
\* pnl_realizado_acumulado by pnl_parcial_net
C15_LiquidacionParcial ==
    \A k \in ParcialesDeCascada :
        /\ cascada.inv_despues.capital_actual - cascada.inv_antes.capital_actual =
               ParcialDevuelto(k).capital_liq + cascada.eventos[k].pnl_net
        /\ cascada.inv_despues.pnl_realizado_acumulado
               - cascada.inv_antes.pnl_realizado_acumulado = cascada.eventos[k].pnl_net

----------------------------------------------------------------------------
(* Lineage of partial closes, gating of the cascade                        *)

\* the operations that were spawned by a partial close
Hijas == {k \in 1..Len(operaciones) : operaciones[k].id_operacion_padre # 0}

\* C16: a partial close leaves the parent closed with estado cerrada_parcial,
\* and no closed operation is ever open again; a child has es_hija, no
\* permite_parcial and the id of its parent; a child is never partially closed
\* itself, so the parent of a child is never a child
C16_LinajeParcial ==
    /\ [](/\ \A k \in ParcialesDeCascada :
                /\ cascada.op.id_operacion_padre = 0
                /\ ~cascada.op.es_hija
                /\ ~operaciones[cascada.id].abierta
                /\ operaciones[cascada.id].estado = "cerrada_parcial"
                /\ cascada.eventos[k].hija.es_hija
                /\ ~cascada.eventos[k].hija.permite_parcial
                /\ cascada.eventos[k].hija.id_operacion_padre = cascada.id
          /\ \A k \in 1..Len(operaciones) :
                operaciones[k].estado = "cerrada_parcial" => ~operaciones[k].abierta
          /\ \A k \in Hijas :
                /\ operaciones[k].es_hija
                /\ ~operaciones[k].permite_parcial
                /\ operaciones[k].estado # "cerrada_parcial"
                /\ operaciones[k].parciales_realizados = 0
                /\ operaciones[k].id_operacion_padre \in 1..Len(operaciones)
                /\ operaciones[k].id_operacion_padre \notin Hijas
                /\ operaciones[operaciones[k].id_operacion_padre].estado = "cerrada_parcial")
    /\ [][\A k \in 1..Len(operaciones) :
              ~operaciones[k].abierta => ~operaciones'[k].abierta]_vars

\* a child spawned by a partial close has gone through the cascade again, on a
\* bar on which a parent would be partially closed, and was closed in total
C16_Witness ==
    /\ cascada.id \in Hijas
    /\ retroceso_parcial(cascada.op, cascada.vela.high, cascada.vela.low)
    /\ ~operaciones[cascada.id].abierta
    /\ operaciones[cascada.id].estado = "cerrada_total"
    /\ operaciones[operaciones[cascada.id].id_operacion_padre].estado = "cerrada_parcial"

\* C17: a cierre_parcial event is emitted for an operation only if its
\* strategy has habilitar_parcial and the operation had fewer than
\* max_parciales partial closes before the event; hence no operation ever has
\* more than its strategy's max_parciales partial closes (stated for the runs
\* in which no persistence call failed)
C17_ParcialHabilitado ==
    fallos = 0 =>
        /\ \A k \in ParcialesDeCascada :
              /\ cascada.op.strategy.habilitar_parcial
              /\ cascada.op.parciales_realizados < cascada.op.strategy.max_parciales
        /\ \A k \in 1..Len(operaciones) :
              operaciones[k].parciales_realizados <= operaciones[k].strategy.max_parciales

\* the operation had reached its minimum advance when the cascade evaluated
\* it: avance_minimo = |tp - entrada| * avance_minimo_pct / 100
AvanceMinimoAlcanzado(op) ==
    IF op.tipo = "LONG"
    THEN op.precio_max * 100 >=
             op.precio_entrada * 100
               + (op.take_profit - op.precio_entrada) * op.strategy.avance_minimo_pct
    ELSE op.precio_min * 100 <=
             op.precio_entrada * 100
               - (op.precio_entrada - op.take_profit) * op.strategy.avance_minimo_pct

\* no advance beyond the entry price was observed
SinAvance(op) ==
    IF op.tipo = "LONG" THEN op.precio_max <= op.precio_entrada
    ELSE op.precio_min >= op.precio_entrada

\* the retracement from entry, LONG (entry - low) / entry, SHORT
\* (high - entry) / entry, is at least porc_limite_retro_entrada / 100
RetrocesoEntradaEnUmbral(op, v) ==
    IF op.tipo = "LONG"
    THEN (op.precio_entrada - v.low) * 100 >=
             op.strategy.porc_limite_retro_entrada * op.precio_entrada
    ELSE (v.high - op.precio_entrada) * 100 >=
             op.strategy.porc_limite_retro_entrada * op.precio_entrada

\* C18: a total close by retracement from the maximum/minimum occurs only if
\* habilitar_proteccion_ganancias is set and the minimum advance was reached;
\* a total close by retracement from entry occurs only if
\* habilitar_retroceso_sin_avance is set, the operation has permite_parcial (is
\* no child), no advance was observed and the retracement from entry has
\* reached the no-advance threshold (stated for the runs in which no
\* persistence call failed)
C18_RetrocesosCondicionados ==
    fallos = 0 => \A k \in 1..Len(cascada.eventos) :
        /\ cascada.eventos[k].motivo = "Retroceso desde maximo" =>
              /\ cascada.op.strategy.habilitar_proteccion_ganancias
              /\ AvanceMinimoAlcanzado(cascada.op)
        /\ cascada.eventos[k].motivo = "Retroceso desde entrada" =>
              /\ cascada.op.strategy.habilitar_retroceso_sin_avance
              /\ cascada.op.permite_parcial
              /\ cascada.op.id_operacion_padre = 0
              /\ SinAvance(cascada.op)
              /\ RetrocesoEntradaEnUmbral(cascada.op, cascada.vela)

\* the cascade invoked on operation k of the collection with bar v, as the
\* investor and the clock stand
CascadaSobre(k, v) == cerrar_operacion(operaciones[k], v, inv, ts, <<>>)

\* C19: invoked on an operation that is already closed, or while the investor
\* is halted, the closure cascade appends no event and leaves the investor's
\* capital_actual and pnl_realizado_acumulado and the operation unchanged
\* (stated for the states reached without a failed persistence call)
C19_CascadaGuardada ==
    \A k \in 1..Len(operaciones) : \A v \in VELAS :
        (fallos = 0 /\ (~operaciones[k].abierta \/ inv.halted)) =>
            /\ CascadaSobre(k, v).eventos = <<>>
            /\ CascadaSobre(k, v).inv.capital_actual = inv.capital_actual
            /\ CascadaSobre(k, v).inv.pnl_realizado_acumulado = inv.pnl_realizado_acumulado
            /\ CascadaSobre(k, v).op = operaciones[k]

\* C20: every operation has cantidad >= 0; a closed operation has cantidad 0
\* and estado cerrada_total or cerrada_parcial; an open operation has estado
\* abierta and cantidad > 0
C20_EstadoOperaciones ==
    \A k \in 1..Len(operaciones) :
        /\ operaciones[k].cantidad >= 0
        /\ ~operaciones[k].abierta =>
              /\ operaciones[k].cantidad = 0
              /\ operaciones[k].estado \in {"cerrada_total", "cerrada_parcial"}
        /\ operaciones[k].abierta =>
              /\ operaciones[k].estado = "abierta"
              /\ operaciones[k].cantidad > 0

\* the operations a step adds to the collection
OperacionesNuevas == (Len(operaciones) + 1)..Len(operaciones')

\* C21: in every step, and so on every bar processed while the operation is
\* open, precio_max of an operation never decreases and precio_min never
\* increases; a child a partial close spawns starts with the precio_max and
\* precio_min its parent has at that moment
C21_ExtremosMonotonos ==
    [][/\ \A k \in 1..Len(operaciones) :
             /\ operaciones'[k].precio_max >= operaciones[k].precio_max
             /\ operaciones'[k].precio_min <= operaciones[k].precio_min
       /\ \A k \in OperacionesNuevas :
             operaciones'[k].es_hija =>
                 /\ operaciones'[k].precio_max =
                        operaciones'[operaciones'[k].id_operacion_padre].precio_max
                 /\ operaciones'[k].precio_min =
                        operaciones'[operaciones'[k].id_operacion_padre].precio_min]_vars

\* a child, spawned with the extremes of its parent, has just been evaluated on
\* a bar whose high is below its precio_max, and is still open
C21_Witness ==
    /\ cascada.id \in Hijas
    /\ cascada.ts = ts
    /\ operaciones[cascada.id].abierta
    /\ cascada.vela.high < operaciones[cascada.id].precio_max
    /\ operaciones[cascada.id].precio_max =
           operaciones[operaciones[cascada.id].id_operacion_padre].precio_max

\* run() is about to process the signal SenalEnCurso
HaySenalEnCurso == pc = "senales" /\ pendientes_senales # <<>>
SenalEnCurso == Head(pendientes_senales)

MultiplicadoresInvalidos(s) == s.mult_sl_asignado <= 0 \/ s.mult_tp_asignado <= 0

\* an open operation exists for the (ticker, side) of the signal
ExisteAbierta(s) ==
    \E k \in 1..Len(operaciones) :
        operaciones[k].abierta /\ operaciones[k].tipo = s.tipo_senal

\* the step journals exactly one event
UnEventoNuevo ==
    /\ Len(eventos') = Len(eventos) + 1
    /\ SubSeq(eventos', 1, Len(eventos)) = eventos
EventoNuevo == eventos'[Len(eventos')]

\* C22: a signal with a multiplier <= 0 (or absent) journals exactly one
\* rejection with motive multiplicadores_invalidos, a rechazo_dca if an open
\* operation exists for its side and a rechazo_apertura otherwise, whether or
\* not the minute has a bar; the investor, the operations and the index stay as
\* they were and no persistence write is made
C22_MultiplicadoresInvalidos ==
    [][(HaySenalEnCurso /\ MultiplicadoresInvalidos(SenalEnCurso)) =>
          /\ UnEventoNuevo
          /\ EventoNuevo.tipo = IF ExisteAbierta(SenalEnCurso)
                                THEN "rechazo_dca" ELSE "rechazo_apertura"
          /\ EventoNuevo.motivo = "multiplicadores_invalidos"
          /\ UNCHANGED <<inv, operaciones, map_ticker_dir, fallos>>
          /\ persistence' = persist_callback(persistence)]_vars

\* an invalid signal was rejected as a DCA at a minute that has no bar
C22_Witness ==
    /\ pc = "senales"
    /\ vela = Nil
    /\ eventos # <<>>
    /\ eventos[Len(eventos)].tipo = "rechazo_dca"
    /\ eventos[Len(eventos)].motivo = "multiplicadores_invalidos"
    /\ eventos[Len(eventos)].ts = ts

\* the events of the DCA path and of the open path of a signal
EsDeRutaDca(e) ==
    \/ e.tipo \in {"dca", "rechazo_dca"}
    \/ e.tipo = "error_persistencia" /\ e.motivo = "update_operacion_exposicion"
EsDeRutaApertura(e) ==
    \/ e.tipo \in {"apertura", "rechazo_apertura"}
    \/ e.tipo = "error_persistencia" /\ e.motivo = "insert_operacion"

\* C23: a signal with valid multipliers and a bar takes the DCA path exactly
\* when an open operation exists for its (ticker, side), and the open path
\* otherwise; the DCA path adds no operation to the collection
C23_RutaSenal ==
    [][(HaySenalEnCurso /\ ~MultiplicadoresInvalidos(SenalEnCurso) /\ vela # Nil) =>
          /\ UnEventoNuevo
          /\ IF ExisteAbierta(SenalEnCurso)
             THEN /\ EsDeRutaDca(EventoNuevo)
                  /\ Len(operaciones') = Len(operaciones)
                  /\ map_ticker_dir' = map_ticker_dir
             ELSE EsDeRutaApertura(EventoNuevo)]_vars

\* a signal was routed to the DCA path of a child, the open operation of its
\* side after the parent's partial close
C23_Witness ==
    /\ eventos # <<>>
    /\ eventos[Len(eventos)].tipo = "dca"
    /\ eventos[Len(eventos)].id_op \in Hijas
    /\ Len(operaciones) = 2

\* the motive of the first gate of _abrir_operacion that fails for the signal s
\* in the current state, in the order drawdown/halted, daily cap, cap of open
\* operations, leverage, risk amount, capital; "" when every gate passes
MotivoRechazoApertura(s) ==
    LET apalancamiento == seleccionar_apalancamiento(inv, s)
        monto == calcular_monto_operacion(inv, risk)
        requerido == monto + calcular_comision(
                                 vela.close, Div(monto * apalancamiento, vela.close),
                                 inv.commission_pct)
    IN  IF inv.drawdown_activo \/ inv.halted THEN "investor_halted_drawdown"
        ELSE IF ~validar_limites_inversionista(inv) THEN "limites_inversionista"
        ELSE IF ~validar_max_abiertas(inv, abiertas(operaciones)) THEN "max_abiertas"
        ELSE IF apalancamiento = 0 THEN "apalancamiento_cero"
        ELSE IF ~validar_riesgo_monto(risk, monto) THEN "monto_fuera_riesgo"
        ELSE IF ~validar_capital_disponible(inv, requerido) THEN "capital_insuficiente"
        ELSE ""

\* the signal in course has valid multipliers, a bar and no open operation of its
\* side: run() hands it to _abrir_operacion
SenalDeApertura ==
    /\ HaySenalEnCurso
    /\ ~MultiplicadoresInvalidos(SenalEnCurso)
    /\ vela # Nil
    /\ ~ExisteAbierta(SenalEnCurso)

\* C24: on the open path the first failing gate, in the fixed order, journals
\* exactly one rechazo_apertura with its motive; the rejected open leaves the
\* investor (capital_actual, operaciones_hoy), the operations and the index
\* unchanged and calls no persistence insert; when every gate passes no
\* rechazo_apertura is journaled
C24_RechazosApertura ==
    [][SenalDeApertura =>
          IF MotivoRechazoApertura(SenalEnCurso) # ""
          THEN /\ UnEventoNuevo
               /\ EventoNuevo.tipo = "rechazo_apertura"
               /\ EventoNuevo.motivo = MotivoRechazoApertura(SenalEnCurso)
               /\ UNCHANGED <<inv, operaciones, map_ticker_dir, fallos>>
               /\ persistence' = persist_callback(persistence)
          ELSE EventoNuevo.tipo # "rechazo_apertura"]_vars

\* an opening was rejected by the daily cap while the cap of open operations was
\* reached as well
C24_Witness ==
    /\ eventos # <<>>
    /\ eventos[Len(eventos)].tipo = "rechazo_apertura"
    /\ eventos[Len(eventos)].motivo = "limites_inversionista"
    /\ ~validar_max_abiertas(inv, abiertas(operaciones))
    /\ pc = "senales"

\* the signal in course has valid multipliers, a bar and an open operation of
\* its side, OperacionDeSenal: run() hands it to _aplicar_dca
SenalDeDca ==
    /\ HaySenalEnCurso
    /\ ~MultiplicadoresInvalidos(SenalEnCurso)
    /\ vela # Nil
    /\ ExisteAbierta(SenalEnCurso)
OperacionDeSenal ==
    CHOOSE k \in 1..Len(operaciones) :
        operaciones[k].abierta /\ operaciones[k].tipo = SenalEnCurso.tipo_senal

\* amount, execution price and commission of the DCA of the signal in course
MontoDca == calcular_monto_operacion(inv, risk)
PrecioDca ==
    aplicar_slippage(vela.close, operaciones[OperacionDeSenal].tipo,
                     inv.slippage_open_pct, "entry")
ComisionDca ==
    calcular_comision(PrecioDca,
                      Div(MontoDca * operaciones[OperacionDeSenal].apalancamiento,
                          PrecioDca),
                      inv.commission_pct)

\* the motive aplicar_dca rejects with, "" when it accepts
MotivoRechazoDca ==
    IF operaciones[OperacionDeSenal].capital_invertido + MontoDca > risk.tamano_max
    THEN "limite_tamano_operacion"
    ELSE IF inv.capital_actual < MontoDca THEN "sin_capital"
    ELSE IF inv.capital_actual < MontoDca + ComisionDca THEN "sin_capital_comision"
    ELSE ""

\* C25: when aplicar_dca rejects (limite_tamano_operacion, else sin_capital,
\* else sin_capital_comision) exactly one rechazo_dca with that motive is
\* journaled, the operation (precio_entrada, cantidad, capital_invertido,
\* capital_bloqueado, comisiones_acumuladas) and the investor's capital are
\* unchanged and update_operacion_exposicion is not called; when it accepts, no
\* rechazo_dca is journaled
C25_RechazoDcaSinEfecto ==
    [][SenalDeDca =>
          IF MotivoRechazoDca # ""
          THEN /\ UnEventoNuevo
               /\ EventoNuevo.tipo = "rechazo_dca"
               /\ EventoNuevo.motivo = MotivoRechazoDca
               /\ EventoNuevo.id_op = OperacionDeSenal
               /\ UNCHANGED <<inv, operaciones, map_ticker_dir, fallos,
                              comisiones_pagadas>>
               /\ persistence' = persist_callback(persistence)
          ELSE EventoNuevo.tipo # "rechazo_dca"]_vars

\* a DCA was rejected because the capital covers the amount but not the
\* commission on top of it
C25_Witness ==
    /\ eventos # <<>>
    /\ eventos[Len(eventos)].tipo = "rechazo_dca"
    /\ eventos[Len(eventos)].motivo = "sin_capital_comision"
    /\ inv.capital_actual >= risk.tamano_min

\* x lies between a and b
Entre(x, a, b) == (a <= x /\ x <= b) \/ (b <= x /\ x <= a)

\* the effect of an accepted DCA on the operation before (op), the operation
\* after (op2) and the capital before and after, qty_extra being the quantity
\* bought: qty_extra * exec = amount * leverage, commission * 100 =
\* exec * qty_extra * commission_pct
EfectoDca(op, op2, capital_antes, capital_despues, qty_extra) ==
    /\ qty_extra > 0
    /\ qty_extra * PrecioDca = MontoDca * op.apalancamiento
    /\ op2.capital_invertido = op.capital_invertido + MontoDca
    /\ op2.capital_bloqueado = op.capital_bloqueado + MontoDca
    /\ (capital_antes - capital_despues) * 100 =
           MontoDca * 100 + PrecioDca * qty_extra * inv.commission_pct
    /\ op2.precio_entrada * op2.cantidad =
           op.precio_entrada * op.cantidad + PrecioDca * qty_extra
    /\ Entre(op2.precio_entrada, op.precio_entrada, PrecioDca)
    /\ op2.take_profit = op.take_profit
    /\ op2.stop_loss = op.stop_loss
    /\ op2.precio_max = op.precio_max
    /\ op2.precio_min = op.precio_min

\* C26: an accepted DCA increases cantidad by qty_extra = amount * leverage /
\* exec, capital_invertido and capital_bloqueado by amount each, decreases
\* capital_actual by amount + commission, and sets the entry price to the
\* quantity-weighted mean of the old entry price and exec, which lies between
\* the two; take_profit, stop_loss, precio_max and precio_min are unchanged
C26_EfectoDca ==
    [][(SenalDeDca /\ MotivoRechazoDca = "") =>
          EfectoDca(operaciones[OperacionDeSenal], operaciones'[OperacionDeSenal],
                    inv.capital_actual, inv'.capital_actual,
                    operaciones'[OperacionDeSenal].cantidad
                        - operaciones[OperacionDeSenal].cantidad)]_vars

\* a DCA executed above the entry price was accepted: the averaged entry price
\* lies strictly between the first entry price and the execution price
C26_Witness ==
    /\ eventos # <<>>
    /\ eventos[Len(eventos)].tipo = "dca"
    /\ operaciones[eventos[Len(eventos)].id_op].precio_entrada > vela.close
    /\ operaciones[eventos[Len(eventos)].id_op].precio_entrada <
           aplicar_slippage(vela.close, "LONG", inv.slippage_open_pct, "entry")

\* C27: every EventLogger.log call appends exactly one entry and invokes the
\* persistence callback exactly once, so the journal always has as many entries
\* as the callback had invocations; a callback that raises (every invocation,
\* when callback_falla) leaves the entry in the journal and marks the investor
\* neither desincronizado nor halted: those are set only by a persistence call
\* of the simulator that raised or by a drawdown; the journal only grows by
\* appending
C27_ContratoLogger ==
    /\ [](/\ persistence.insert_log_evento = Len(eventos)
          /\ persistence.excepciones_callback =
                 IF persistence.callback_falla THEN Len(eventos) ELSE 0
          /\ inv.desincronizado => fallos > 0
          /\ inv.halted => (fallos > 0 \/ inv.drawdown_activo))
    /\ [][/\ Len(eventos') >= Len(eventos)
          /\ SubSeq(eventos', 1, Len(eventos)) = eventos]_vars

\* the callback raised on every event of a run that opened and closed an
\* operation, and the investor is neither halted nor desincronizado
C27_Witness ==
    /\ persistence.excepciones_callback >= 2
    /\ EventosDe({"apertura"}) # {}
    /\ EventosDe({"cierre_total"}) # {}
    /\ ~inv.halted
    /\ ~inv.desincronizado

\* C28: every operation-row mutation that was persisted has its paired journal
\* event: the inserts are no more than the apertura and apertura_hija_parcial
\* events, and the cierre_total, cierre_parcial and exposicion updates no more
\* than the cierre_total, cierre_parcial and dca events
C28_MutacionConEvento ==
    /\ persistence.insert_operacion
           <= Cardinality(EventosDe({"apertura", "apertura_hija_parcial"}))
    /\ persistence.update_operacion_cierre_total
           <= Cardinality(EventosDe({"cierre_total"}))
    /\ persistence.update_operacion_cierre_parcial
           <= Cardinality(EventosDe({"cierre_parcial"}))
    /\ persistence.update_operacion_exposicion
           <= Cardinality(EventosDe({"dca"}))

\* C29: a signal with valid multipliers at a minute without bar journals exactly
\* one rechazo_apertura with motive sin_precio_minuto, whether or not an
\* operation of its side is open; the investor, the operations and the index
\* stay as they were and no persistence write is made
C29_SinPrecioMinuto ==
    [][(HaySenalEnCurso /\ ~MultiplicadoresInvalidos(SenalEnCurso) /\ vela = Nil) =>
          /\ UnEventoNuevo
          /\ EventoNuevo.tipo = "rechazo_apertura"
          /\ EventoNuevo.motivo = "sin_precio_minuto"
          /\ EventoNuevo.tipo_senal = SenalEnCurso.tipo_senal
          /\ UNCHANGED <<inv, operaciones, map_ticker_dir, fallos, comisiones_pagadas>>
          /\ persistence' = persist_callback(persistence)]_vars

\* a signal without bar was rejected while an operation of its side was open
C29_Witness ==
    /\ pc = "senales"
    /\ vela = Nil
    /\ eventos # <<>>
    /\ eventos[Len(eventos)].tipo = "rechazo_apertura"
    /\ eventos[Len(eventos)].motivo = "sin_precio_minuto"
    /\ eventos[Len(eventos)].ts = ts
    /\ \E k \in 1..Len(operaciones) :
          /\ operaciones[k].abierta
          /\ operaciones[k].tipo = eventos[Len(eventos)].tipo_senal

\* the prices and slippage percentages aplicar_slippage is checked on: those of
\* the run's bars and signals, percentages below, at and above 0 and above 100
PreciosSlippage == {80, 100, 120, 200}
PorcentajesSlippage == {-10, 0, 10, 50, 100, 150}

\* C30: for a price > 0 aplicar_slippage returns a price >= the requested one
\* for a LONG entry and a SHORT exit and <= it for a LONG exit and a SHORT
\* entry; for a percentage <= 0 it returns the price unchanged
C30_SignoSlippage ==
    \A precio \in PreciosSlippage :
        \A pct \in PorcentajesSlippage
                       \cup {inv.slippage_open_pct, inv.slippage_close_pct} :
            /\ aplicar_slippage(precio, "LONG", pct, "entry") >= precio
            /\ aplicar_slippage(precio, "SHORT", pct, "exit") >= precio
            /\ aplicar_slippage(precio, "LONG", pct, "exit") <= precio
            /\ aplicar_slippage(precio, "SHORT", pct, "entry") <= precio
            /\ pct <= 0 =>
                   \A tipo \in TIPOS, side \in {"entry", "exit"} :
                       aplicar_slippage(precio, tipo, pct, side) = precio

\* the run applied it both ways: a LONG operation whose entry a DCA executed
\* above the bar's close was closed at its take profit, executed below it
C30_Witness ==
    /\ cascada.id # 0
    /\ cascada.op.tipo = "LONG"
    /\ cascada.op.precio_entrada > cascada.vela.close
    /\ cascada.eventos # <<>>
    /\ cascada.eventos[1].tipo_evento = "cierre_total"
    /\ cascada.eventos[1].precio_exec =
           aplicar_slippage(cascada.op.take_profit, "LONG",
                            inv.slippage_close_pct, "exit")
    /\ cascada.eventos[1].precio_exec < cascada.op.take_profit

\* C31: when insert_operacion raises on the open path, capital_actual is not
\* debited, operaciones_hoy is not incremented, the operation enters neither
\* the collection nor the (ticker, side) index, and the only event journaled is
\* error_persistencia (no apertura)
C31_InsertFallido ==
    [][(SenalDeApertura /\ fallos' > fallos) =>
          /\ inv'.capital_actual = inv.capital_actual
          /\ inv'.operaciones_hoy = inv.operaciones_hoy
          /\ UNCHANGED <<operaciones, map_ticker_dir, comisiones_pagadas>>
          /\ UnEventoNuevo
          /\ EventoNuevo.tipo = "error_persistencia"
          /\ EventoNuevo.motivo = "insert_operacion"
          /\ persistence'.insert_operacion = persistence.insert_operacion]_vars

\* the insert of the first opening of the run raised: the books are as before
C31_Witness ==
    /\ eventos # <<>>
    /\ eventos[Len(eventos)].tipo = "error_persistencia"
    /\ eventos[Len(eventos)].motivo = "insert_operacion"
    /\ EventosDe({"apertura"}) = {}
    /\ operaciones = <<>>
    /\ inv.capital_actual = inv.capital_inicial
    /\ inv.operaciones_hoy = 0
    /\ map_ticker_dir = [t \in TIPOS |-> 0]

\* C32: the step in which a closure sets drawdown_activo also sets halted and
\* drops the rest of the snapshot; from then on no operation is evaluated, no
\* signal is fetched or processed, no minute is started and nothing else of
\* the investor, the operations or the journal changes
C32_ParadaInmediata ==
    /\ [](inv.drawdown_activo => (inv.halted /\ pendientes_cierre = <<>>
                                  /\ pendientes_senales = <<>>))
    /\ [][inv.drawdown_activo =>
             UNCHANGED <<inv, operaciones, map_ticker_dir, eventos, ts, cascada,
                         senales, pendientes_senales, persistence, fallos>>]_vars

\* the closure of the first operation tripped the drawdown on a bar that also
\* reaches the take profit of the second, which is still open and was not
\* evaluated in this minute (its precio_min is above the bar's low)
C32_Witness ==
    /\ inv.drawdown_activo
    /\ cascada.id = 1
    /\ cascada.ts = ts
    /\ Len(operaciones) = 2
    /\ operaciones[2].abierta
    /\ operaciones[2].tipo = "SHORT"
    /\ vela # Nil
    /\ vela.low <= operaciones[2].take_profit
    /\ operaciones[2].precio_min > vela.low

\* C33: a child spawned at minute ts is not in the rest of the snapshot the
\* closure loop iterates at ts, is not evaluated by the cascade at ts, and has
\* no closure event before minute ts + 1
C33_HijaNoEvaluada ==
    /\ \A j \in 1..Len(pendientes_cierre) :
          pendientes_cierre[j] \in Hijas =>
              operaciones[pendientes_cierre[j]].timestamp_apertura < ts
    /\ cascada.id \in Hijas =>
           cascada.ts > operaciones[cascada.id].timestamp_apertura
    /\ \A k \in EventosDe({"cierre_total", "cierre_parcial"}) :
          eventos[k].id_op \in Hijas =>
              eventos[k].ts > operaciones[eventos[k].id_op].timestamp_apertura

\* a signal of the minute in which the child was spawned was applied to it as a
\* DCA, and the child has not been evaluated by the cascade
C33_Witness ==
    /\ eventos # <<>>
    /\ eventos[Len(eventos)].tipo = "dca"
    /\ eventos[Len(eventos)].id_op \in Hijas
    /\ eventos[Len(eventos)].ts =
           operaciones[eventos[Len(eventos)].id_op].timestamp_apertura
    /\ cascada.id \notin Hijas

\* the closure loop is about to visit OperacionEnCurso
HayCierreEnCurso == pc = "cierres" /\ pendientes_cierre # <<>>
OperacionEnCurso == Head(pendientes_cierre)

\* what the iteration on OperacionEnCurso leaves when no persistence call raises
CierreSinFallo == iterar_cierre(estado, OperacionEnCurso, vela, ts, "no").st

\* C34: when a persistence write of a matched closure raises, the operation is
\* closed in memory with cantidad 0, the investor's capital and realized P&L
\* and the operation are those the closure produced (nothing is rolled back),
\* the investor is halted and desincronizado, and the journal keeps every
\* earlier event and gains the error_persistencia event
C34_CierreSobreviveFallo ==
    [][(HayCierreEnCurso /\ fallos' > fallos) =>
          /\ ~operaciones'[OperacionEnCurso].abierta
          /\ operaciones'[OperacionEnCurso].cantidad = 0
          /\ operaciones'[OperacionEnCurso] = CierreSinFallo.operaciones[OperacionEnCurso]
          /\ inv'.capital_actual = CierreSinFallo.inv.capital_actual
          /\ inv'.pnl_realizado_acumulado = CierreSinFallo.inv.pnl_realizado_acumulado
          /\ inv'.halted /\ inv'.desincronizado
          /\ UnEventoNuevo
          /\ EventoNuevo.tipo = "error_persistencia"]_vars

\* update_operacion_cierre_total raised after a take profit: the operation is
\* closed, the capital was credited and the investor is desincronizado
C34_Witness ==
    /\ eventos # <<>>
    /\ eventos[Len(eventos)].tipo = "error_persistencia"
    /\ eventos[Len(eventos)].motivo = "update_operacion_cierre_total"
    /\ cascada.id # 0
    /\ ~operaciones[cascada.id].abierta
    /\ operaciones[cascada.id].cantidad = 0
    /\ operaciones[cascada.id].pnl_realizado > 0
    /\ inv.capital_actual > cascada.inv_antes.capital_actual
    /\ inv.pnl_realizado_acumulado = operaciones[cascada.id].pnl_realizado
    /\ inv.desincronizado

\* C35: an open operation whose minute has no bar is skipped: its fields
\* (precio_max and precio_min included), the investor, the index and the
\* journal are unchanged, no persistence call is made, and the loop goes on to
\* the rest of the snapshot
C35_SinVelaEnCierre ==
    [][(HayCierreEnCurso /\ operaciones[OperacionEnCurso].abierta /\ vela = Nil) =>
          /\ UNCHANGED <<inv, operaciones, map_ticker_dir, eventos, cascada, fallos,
                         persistence, comisiones_pagadas>>
          /\ pendientes_cierre' = Tail(pendientes_cierre)
          /\ pc' = "cierres"]_vars

\* the first open operation was skipped at a minute without bar and the second
\* open operation of the snapshot is next
C35_Witness ==
    /\ pc = "cierres"
    /\ vela = Nil
    /\ Len(operaciones) = 2
    /\ pendientes_cierre = <<2>>
    /\ operaciones[1].abierta
    /\ operaciones[2].abierta
    /\ ts > operaciones[1].timestamp_apertura

\* C36: run() terminates; ts never decreases and advances by one at the end of
\* a minute only, and a minute is entered only from the previous one, so the
\* minutes are processed in increasing order and each at most once; run() ends
\* past ts_fin unless the investor is halted or desincronizado, and once it is,
\* no further minute is started
C36_RunTermina ==
    /\ <>(pc \in {"terminado", "finalizado"})
    /\ [](pc \in {"terminado", "finalizado"} =>
              (ts = TsFin + 1 \/ inv.halted \/ inv.desincronizado))
    /\ [](ts \in TsInicio..(TsFin + 1))
    /\ [][/\ ts' = ts \/ (ts' = ts + 1 /\ pc = "senales" /\ pc' = "minuto")
          /\ pc' = "minuto" => (pc = "minuto" \/ ts' = ts + 1)
          /\ (inv.halted \/ inv.desincronizado) =>
                 (ts' = ts /\ ~(pc = "minuto" /\ pc' = "cierres"))]_vars

\* run() returned after the last minute of the range with an investor that is
\* neither halted nor desincronizado, having opened operations on the way
C36_Witness ==
    /\ pc = "terminado"
    /\ ts = TsFin + 1
    /\ ~inv.halted
    /\ ~inv.desincronizado
    /\ Len(operaciones) >= 2
    /\ senales = <<>>

\* the open operations of a side (the model has one ticker, so a side is a
\* (ticker, side) key of map_ticker_dir)
AbiertasDe(lado) ==
    {k \in 1..Len(operaciones) : operaciones[k].abierta /\ operaciones[k].tipo = lado}

\* C37: in every reachable state each (ticker, side) has at most one open
\* operation, and when it has one, map_ticker_dir points to it; after a partial
\* close the index points to the child and not to the closed parent
C37_UnaAbiertaPorLado ==
    \A lado \in {"LONG", "SHORT"} :
        /\ Cardinality(AbiertasDe(lado)) <= 1
        /\ \A k \in AbiertasDe(lado) : map_ticker_dir[lado] = k

\* a partial close left the parent closed and its child open, the index of the
\* side points to the child, and the other side has an open operation too
C37_Witness ==
    /\ \E k \in Hijas :
           /\ operaciones[k].abierta
           /\ ~operaciones[operaciones[k].id_operacion_padre].abierta
           /\ map_ticker_dir[operaciones[k].tipo] = k
           /\ map_ticker_dir[operaciones[k].tipo] # operaciones[k].id_operacion_padre
    /\ AbiertasDe("LONG") # {}
    /\ AbiertasDe("SHORT") # {}

\* C38: every open operation has capital_invertido = capital_bloqueado and
\* capital_invertido <= risk.tamano_max; an operation that _abrir_operacion
\* opens (not a child) has tamano_min <= capital_invertido, and the amount plus
\* the commission that was debited for it was not above the capital available
\* when it was opened
C38_TamanoOperacion ==
    /\ [](\A k \in 1..Len(operaciones) :
              operaciones[k].abierta =>
                  /\ operaciones[k].capital_invertido = operaciones[k].capital_bloqueado
                  /\ operaciones[k].capital_invertido <= risk.tamano_max)
    /\ [][\A k \in OperacionesNuevas :
              ~operaciones'[k].es_hija =>
                  /\ operaciones'[k].abierta
                  /\ risk.tamano_min <= operaciones'[k].capital_invertido
                  /\ operaciones'[k].capital_invertido + operaciones'[k].comisiones_acumuladas
                         <= inv.capital_actual
                  /\ inv'.capital_actual =
                         inv.capital_actual - (operaciones'[k].capital_invertido
                                               + operaciones'[k].comisiones_acumuladas)]_vars

\* the last event is the DCA that grew an operation opened by _abrir_operacion
\* from tamano_min up to exactly tamano_max, and the operation is open
C38_Witness ==
    /\ eventos # <<>>
    /\ eventos[Len(eventos)].tipo = "dca"
    /\ \E k \in 1..Len(operaciones) :
           /\ eventos[Len(eventos)].id_op = k
           /\ operaciones[k].abierta
           /\ ~operaciones[k].es_hija
           /\ operaciones[k].capital_invertido = risk.tamano_max
           /\ operaciones[k].capital_bloqueado = 2 * risk.tamano_min

\* C39: when max_operaciones_abiertas > 0, in every reachable state the number
\* of operations with abierta = TRUE is at most max_operaciones_abiertas, also
\* after a partial close, whose child enters without passing the gate of open
\* operations
C39_TopeAbiertas ==
    inv.max_operaciones_abiertas > 0 =>
        Cardinality({k \in 1..Len(operaciones) : operaciones[k].abierta})
            <= inv.max_operaciones_abiertas

\* with a cap of one open operation, the child of a partial close is the one
\* open operation and the last event is the rejection, with motive
\* max_abiertas, of a signal that arrived after the partial close
C39_Witness ==
    /\ inv.max_operaciones_abiertas = 1
    /\ \E k \in Hijas :
           /\ operaciones[k].abierta
           /\ ~operaciones[operaciones[k].id_operacion_padre].abierta
    /\ eventos # <<>>
    /\ eventos[Len(eventos)].tipo = "rechazo_apertura"
    /\ eventos[Len(eventos)].motivo = "max_abiertas"

\* the journal entries that carry capital_antes and capital_despues: every entry
\* but rechazo_apertura, which _rechazo_apertura logs without them
TieneCapital(e) == e.tipo # "rechazo_apertura"
EventosConCapital == SelectSeq(eventos, TieneCapital)

\* C40: for every two consecutive journal entries that carry capital fields,
\* capital_despues of the earlier one is capital_antes of the later one, and
\* capital_despues of the last one is the investor's capital_actual, so that no
\* change of the capital goes without an entry that records it
C40_CadenaAuditoria ==
    /\ \A k \in 1..(Len(EventosConCapital) - 1) :
           EventosConCapital[k].capital_despues = EventosConCapital[k + 1].capital_antes
    /\ EventosConCapital # <<>> =>
           EventosConCapital[Len(EventosConCapital)].capital_despues = inv.capital_actual

====
